---- MODULE Spec2Model ----
(***************************************************************************)
(* Model of qubes/storage/__init__.py: the Volume entity, its per-volume   *)
(* lock, and the Storage coordinator's fan-out operations.                 *)
(*                                                                         *)
(* The module holds several specifications over one variable vector; each  *)
(* specification drives one part of the program and leaves the variables   *)
(* of the other parts unchanged:                                           *)
(*   SpecLock    Volume.locked and the calls that go through it            *)
(*   SpecStorage Storage.create/start/stop/verify/remove                   *)
(*   SpecClone   Storage.clone with VmCreationManager's rollback           *)
(*   SpecVolume  Volume.__init__ and the size setter                       *)
(*   SpecAttach  Storage.attach/detach/unused_frontend                     *)
(*   SpecRace    Storage.attach called by concurrent tasks of one loop     *)
(*   SpecCollection  VolumesCollection.__getitem__ and __contains__        *)
(*   SpecResize  Storage.resize                                            *)
(*   SpecConfig  Volume.config and its serialization                       *)
(*   SpecEq      Volume.__eq__ and Volume.__hash__                         *)
(*   SpecInitVolume  Storage.init_volume and the template chain            *)
(***************************************************************************)
EXTENDS Integers, Sequences, FiniteSets, TLC

VARIABLES
    \* ---- Volume.locked (SpecLock)
    wrapped,      \* the methods the Volume class in use decorates with @Volume.locked
    cpc,          \* call -> "idle" | "waiting" | "body" | "done" | "failed"
    cvol,         \* call -> the Volume instance it is made on (0: none yet)
    cmeth,        \* call -> the method called ("none" before the call)
    lock_locked,  \* volume -> asyncio.Lock._locked of self._lock
    lock_waiters, \* volume -> asyncio.Lock._waiters of self._lock (FIFO of calls)
    fut,          \* call -> "none" | "pending" | "done": the waiter's future
    \* ---- Storage.create/start/stop/verify/remove (SpecStorage)
    vm_dir_exists,\* os.path.exists(self.vm.dir_path)
    sop,          \* the Storage operation called ("none" before the call)
    spc,          \* "idle" | "collect" | "wait" | "resume" | "returned" | "raised"
    idx,          \* position in self.vm.volumes.values() of the next volume called
    kind,         \* volume -> "none" | "plain" | "coro": what vol.<op>() turned out to be
    vstate,       \* volume -> "not_called" | "created" | "pending" | "ok" | "failed"
    vexc,         \* volume -> "none" | "OSError" | "Other": what its <op>() raised
    hres,         \* what void_coros_maybe gave back: "none" | "ok" | "OSError" | "Other"
    sresult,      \* what the Storage operation gave its caller
    fired,        \* 'domain-verify-files' was fired
    logged,       \* log.exception calls of Storage.remove: volumes, 0 for "some volume"
    \* ---- Storage.clone and VmCreationManager (SpecClone)
    vm_dir,       \* self.vm.dir_path: "missing" | "empty" | "nonempty"
    vm_volumes,   \* self.vm.volumes, in insertion order: <<[name, dst]>>
    cl_pc,        \* "idle" | "tasks" | "exit" | "returned" | "raised"
    ctask,        \* name -> "new" | "creating" | "importing" | "done" | "failed"
    cfail,        \* name -> the step of clone_volume that raised, or "none"
    on_disk,      \* name -> the destination volume exists on disk
    rem,          \* name -> what __exit__'s volume.remove() did
    exit_idx,     \* position in self.vm.volumes.values() of __exit__'s loop
    clone_err,    \* the failure void_coros_maybe raised inside the `with`
    surfaced,     \* what Storage.clone gave its caller
    \* ---- Volume.__init__ (SpecVolume)
    volumes,      \* the Volume objects constructed so far
    last_init,    \* arguments and outcome of the last Volume(...) call
    \* ---- Storage.attach/detach/unused_frontend (SpecAttach)
    vm_running,   \* self.vm.is_running()
    descriptors,  \* the <disk> elements of libvirt_domain.XMLDesc(), in order
    prev_desc,    \* the descriptors as they were before the last call
    last,         \* the last call: [op, vol, result, frontend, submitted]
    refused,      \* the volumes an attach found no unused frontend for
    pending,      \* the volumes whose attach is called by a task yet to run
    \* ---- VolumesCollection (SpecCollection)
    get_volume_kind,  \* what the pool's get_volume does
    list_volumes_impl,\* whether the pool implements list_volumes
    pool_vids,    \* the vids of the volumes the pool holds now
    last_item,    \* the last __getitem__ or __contains__ call and its outcome
    found_vids,   \* the vids a __getitem__ has returned a volume for
    \* ---- Storage.resize (SpecResize)
    rs_running,   \* self.vm.is_running()
    rs_kind,      \* what volume.resize is: Volume's own, or a driver's
    rs_size,      \* volume.size
    rs_pc,        \* where Storage.resize is
    rs_req,       \* the arguments of the call: [volume, size]
    rs_before,    \* volume.size when the call was made
    rs_resized,   \* volume.resize(size) has completed without raising
    rs_helper,    \* the times the call has invoked qubes.ResizeDisk
    rs_stderr,    \* the helper's outcome: [failed, stderr]
    rs_result,    \* what the caller received: [exc, text]
    \* ---- Volume.config, Volume.__xml__, _sanitize_config (SpecConfig)
    cfg_volume,   \* the attributes of a Volume
    cfg_xml,      \* the attributes of its <volume> element: [done, config]
    \* ---- Volume.__eq__, Volume.__hash__ (SpecEq)
    eq_self,      \* a Volume
    eq_other,     \* another Volume
    eq_result,    \* [done, eq, hash_self, hash_other] of comparing the two
    \* ---- Storage.init_volume (SpecInitVolume)
    iv_chain,     \* the same-named volume of each template up from the VM
    iv_pc,        \* where Storage.init_volume is
    iv_template,  \* the loop's template: its place in the chain, 0 for None
    iv_config,    \* volume_config
    iv_steps,     \* the iterations the loop has made
    iv_volume,    \* what init_volume gave: [result, pool, size, source]
    \* ---- DirectoryThinPool, search_pool_containing_dir (SpecThin, SpecSearch)
    _thin_pool,   \* DirectoryThinPool._thin_pool: path -> (volume group, thin pool)
    tp_lookups,   \* path -> how many times the device mapper was asked about it
    tp_last,      \* the last thin_pool call: its path and what it returned
    sr_pools,     \* the pools given to search_pool_containing_dir, in order
    sr_link,      \* whether the directory b is a symbolic link to a
    sr_last       \* the last search: its dir_path and the place of the pool found

lockVars == <<wrapped, cpc, cvol, cmeth, lock_locked, lock_waiters, fut>>

storageVars == <<vm_dir_exists, sop, spc, idx, kind, vstate, vexc, hres, sresult,
                 fired, logged>>

cloneVars == <<vm_dir, vm_volumes, cl_pc, ctask, cfail, on_disk, rem, exit_idx,
               clone_err, surfaced>>

volumeVars == <<volumes, last_init>>

attachVars ==
    <<vm_running, descriptors, prev_desc, last, refused, pending>>

collectionVars ==
    <<get_volume_kind, list_volumes_impl, pool_vids, last_item, found_vids>>

resizeVars ==
    <<rs_running, rs_kind, rs_size, rs_pc, rs_req, rs_before, rs_resized,
      rs_helper, rs_stderr, rs_result>>

configVars == <<cfg_volume, cfg_xml>>

eqVars == <<eq_self, eq_other, eq_result>>

initVolumeVars ==
    <<iv_chain, iv_pc, iv_template, iv_config, iv_steps, iv_volume>>

thinVars == <<_thin_pool, tp_lookups, tp_last, sr_pools, sr_link, sr_last>>

vars ==
    <<lockVars, storageVars, cloneVars, volumeVars, attachVars,
      collectionVars, resizeVars, configVars, eqVars, initVolumeVars,
      thinVars>>

\* What the actions of one specification leave alone: the other parts' state.
LockFrame ==
    UNCHANGED <<storageVars, cloneVars, volumeVars, attachVars,
                collectionVars, resizeVars, configVars, eqVars,
                initVolumeVars, thinVars>>
StorageFrame ==
    UNCHANGED <<lockVars, cloneVars, volumeVars, attachVars,
                collectionVars, resizeVars, configVars, eqVars,
                initVolumeVars, thinVars>>
CloneFrame ==
    UNCHANGED <<lockVars, storageVars, volumeVars, attachVars,
                collectionVars, resizeVars, configVars, eqVars,
                initVolumeVars, thinVars>>
VolumeFrame ==
    UNCHANGED <<lockVars, storageVars, cloneVars, attachVars,
                collectionVars, resizeVars, configVars, eqVars,
                initVolumeVars, thinVars>>
AttachFrame ==
    UNCHANGED <<lockVars, storageVars, cloneVars, volumeVars,
                collectionVars, resizeVars, configVars, eqVars,
                initVolumeVars, thinVars>>
CollectionFrame ==
    UNCHANGED <<lockVars, storageVars, cloneVars, volumeVars, attachVars,
                resizeVars, configVars, eqVars, initVolumeVars, thinVars>>
ResizeFrame ==
    UNCHANGED <<lockVars, storageVars, cloneVars, volumeVars, attachVars,
                collectionVars, configVars, eqVars, initVolumeVars, thinVars>>
ConfigFrame ==
    UNCHANGED <<lockVars, storageVars, cloneVars, volumeVars, attachVars,
                collectionVars, resizeVars, eqVars, initVolumeVars, thinVars>>
EqFrame ==
    UNCHANGED <<lockVars, storageVars, cloneVars, volumeVars, attachVars,
                collectionVars, resizeVars, configVars, initVolumeVars,
                thinVars>>
InitVolumeFrame ==
    UNCHANGED <<lockVars, storageVars, cloneVars, volumeVars, attachVars,
                collectionVars, resizeVars, configVars, eqVars, thinVars>>
ThinFrame ==
    UNCHANGED <<lockVars, storageVars, cloneVars, volumeVars, attachVars,
                collectionVars, resizeVars, configVars, eqVars,
                initVolumeVars>>

(***************************************************************************)
(* Bounds                                                                  *)
(***************************************************************************)
MaxCalls == 3
NumLockVolumes == 2
NumVolumes == 2
NumCloneVolumes == 2
MaxVolumes == 2
NumAttachVolumes == 2
MaxFree == 1
\* len(string.ascii_lowercase): the slots 'xvda' .. 'xvdz'
NumFrontends == 26
MaxSize == 2
MaxStderr == 2
MaxRevisions == 1
MaxCfgSize == 1
MaxChain == 2
MaxDepth == 1
MaxPaths == 3
MaxPools == 2
MaxLookups == 2
\* ord('%'), the character Storage.resize removes
Percent == 37
\* the first byte value decode('ascii') cannot decode
AsciiEnd == 128

Calls == 1..MaxCalls
LockVolumes == 1..NumLockVolumes
Methods == {"create", "resize"}
\* self.vm.volumes.values(), by position in the mapping
StorageVolumes == 1..NumVolumes
StorageOps == {"create", "start", "stop", "verify", "remove"}
Failures == {"OSError", "Other"}
\* self.vm.volume_config.keys(), by position
CloneNames == 1..NumCloneVolumes
NoError == [step |-> "none", name |-> 0]
\* Pool objects and their names; two Pool objects may carry one name
PoolObjs == {"poolA", "poolA2", "poolB"}
NotAPool == "a str"
Vids == {"vid1", "vid2"}
Sizes == {0, 1}
NoInit == [snap_on_start |-> FALSE, source |-> 0, result |-> "none"]

\* The volumes Storage.attach/detach are called with, by vid
AttachVolumes == 1..NumAttachVolumes
\* Storage.AVAILABLE_FRONTENDS: slot i stands for 'xvd' + the i-th lowercase
\* letter, so the order of the numbers is the lexicographic order of the names
AVAILABLE_FRONTENDS == 1..NumFrontends
\* A target outside 'xvda' .. 'xvdz' (another bus, or a <target> without dev)
OtherTarget == 0
\* sorted(...)[0] of an empty difference raises IndexError: no slot
IndexError == -1
\* A source path that is no /dev/<vid> of the volumes
OtherSource == 0
NoCall == [op |-> "none", vol |-> 0, result |-> "none", frontend |-> 0,
           submitted |-> "none"]

\* The pool a VolumesCollection wraps (self._pool)
ThisPool == "poolA"
\* What a pool's get_volume does: return the volume or raise KeyError, return
\* the volume or None, or raise NotImplementedError as Pool.get_volume does
GetVolumeKinds == {"KeyError if absent", "None if absent", "NotImplementedError"}
\* The items given to VolumesCollection: a vid (str) or a Volume instance
Items ==
    [type : {"str"}, pool : {"none"}, vid : Vids] \cup
    [type : {"Volume"}, pool : PoolObjs, vid : Vids]
NoItem == [op |-> "none",
           item |-> [type |-> "none", pool |-> "none", vid |-> "none"],
           result |-> "none", lookup |-> "none", listed |-> {}]

\* The sizes of a volume and of a resize request
ResizeSizes == 0..MaxSize
\* What volume.resize is: Volume.resize, or a driver's, plain or coroutine
ResizeKinds == {"Volume", "plain", "coroutine"}
\* The volume argument of Storage.resize: the Volume, its name, another name
ResizeVolumes == {"volume", "name", "unknown name"}
\* Bytes of the helper's stderr: '%', a letter, a byte that is not ASCII
StderrBytes == {Percent, 97, 233}
NoRequest == [volume |-> "none", size |-> 0]
NoHelper == [failed |-> FALSE, stderr |-> <<>>]
NoResult == [exc |-> "none", text |-> <<>>]

\* The Volumes whose config is serialized: as Volume.__init__ leaves them
\* (snap_on_start exactly with a source, written here as the source's vid)
CfgVolumes ==
    {v \in [name : {"root"}, pool : {ThisPool}, vid : Vids,
            revisions_to_keep : 0..MaxRevisions, rw : BOOLEAN,
            save_on_stop : BOOLEAN, snap_on_start : BOOLEAN,
            size : 0..MaxCfgSize, source : {"None"} \cup Vids] :
        v.snap_on_start <=> v.source # "None"}
NoVolume ==
    [name |-> "root", pool |-> ThisPool, vid |-> "vid1",
     revisions_to_keep |-> 0, rw |-> FALSE, save_on_stop |-> FALSE,
     snap_on_start |-> FALSE, size |-> 0, source |-> "None"]
NoXml == [done |-> FALSE, config |-> <<>>]

\* The Volumes that are compared, with the attributes that tell them apart
EqVolumes ==
    [pool : PoolObjs, vid : Vids, name : {"root", "private"}, size : Sizes,
     rw : BOOLEAN, snap_on_start : BOOLEAN]
NoEqVolume ==
    [pool |-> ThisPool, vid |-> "vid1", name |-> "root", size |-> 0,
     rw |-> FALSE, snap_on_start |-> FALSE]
NoEq == [done |-> FALSE, eq |-> FALSE, hash_self |-> "", hash_other |-> ""]

\* The pools of the template chain
ChainPools == {"poolA", "poolB"}
\* The same-named volume of a template: its pool, its size, and whether it
\* has a source of its own
ChainVolumes == [pool : ChainPools, size : Sizes, has_source : BOOLEAN]
\* The 'source' of a volume_config: no such key, None, or a vid of its pool
SourceKeys == {"absent", "None", "vid"}
\* A source that is not a volume of the chain: None, or the volume of a vid
NoSource == 0
VidSource == -1
NoConfig ==
    [source_key |-> "absent", source |-> NoSource, pool |-> "absent",
     size |-> 0, snap_on_start |-> FALSE]
NoNewVolume ==
    [result |-> "none", pool |-> "none", size |-> 0, source |-> NoSource]

\* Directory names, and the paths of at most k of them under the root
Components == {"a", "b"}
RECURSIVE PathsUpTo(_)
PathsUpTo(k) ==
    IF k = 0 THEN {<<>>}
    ELSE LET P == PathsUpTo(k - 1)
         IN  P \cup {Append(p, c) : p \in P, c \in Components}
Paths == PathsUpTo(MaxDepth)
\* What DirectoryThinPool stores for a path: None, None or a volume group
\* and a thin pool
NonePair == <<"None", "None">>
ThinPairs == {<<"vg0", "pool0">>, <<"vg0", "pool1">>}
NoThinCall == [path |-> <<>>, result |-> <<"none", "none">>]
\* The pools: one with a dir_path, one with volume_group and thin_pool, one
\* with neither
PoolRecords ==
    [kind : {"file"}, dir_path : Paths, pair : {NonePair}] \cup
    [kind : {"lvm"}, dir_path : {<<>>}, pair : ThinPairs] \cup
    [kind : {"other"}, dir_path : {<<>>}, pair : {NonePair}]
NoSearch == [dir_path |-> <<>>, result |-> -1]

\* The state of each part before anything is called on it.
LockIdle ==
    /\ wrapped = {}
    /\ cpc = [c \in Calls |-> "idle"]
    /\ cvol = [c \in Calls |-> 0]
    /\ cmeth = [c \in Calls |-> "none"]
    /\ lock_locked = [v \in LockVolumes |-> FALSE]
    /\ lock_waiters = [v \in LockVolumes |-> <<>>]
    /\ fut = [c \in Calls |-> "none"]

StorageIdle ==
    /\ vm_dir_exists = TRUE
    /\ sop = "none"
    /\ spc = "idle"
    /\ idx = 1
    /\ kind = [v \in StorageVolumes |-> "none"]
    /\ vstate = [v \in StorageVolumes |-> "not_called"]
    /\ vexc = [v \in StorageVolumes |-> "none"]
    /\ hres = "none"
    /\ sresult = "none"
    /\ fired = FALSE
    /\ logged = {}

CloneIdle ==
    /\ vm_dir = "empty"
    /\ vm_volumes = [n \in CloneNames |-> [name |-> n, dst |-> FALSE]]
    /\ cl_pc = "idle"
    /\ ctask = [n \in CloneNames |-> "new"]
    /\ cfail = [n \in CloneNames |-> "none"]
    /\ on_disk = [n \in CloneNames |-> FALSE]
    /\ rem = [n \in CloneNames |-> "none"]
    /\ exit_idx = 1
    /\ clone_err = NoError
    /\ surfaced = NoError

VolumeIdle ==
    /\ volumes = <<>>
    /\ last_init = NoInit

InitVolumeIdle ==
    /\ iv_chain = <<>>
    /\ iv_pc = "idle"
    /\ iv_template = 0
    /\ iv_config = NoConfig
    /\ iv_steps = 0
    /\ iv_volume = NoNewVolume

ThinIdle ==
    /\ _thin_pool = <<>>
    /\ tp_lookups = [p \in Paths |-> 0]
    /\ tp_last = NoThinCall
    /\ sr_pools = <<>>
    /\ sr_link = FALSE
    /\ sr_last = NoSearch

EqIdle ==
    /\ eq_self = NoEqVolume
    /\ eq_other = NoEqVolume
    /\ eq_result = NoEq

ConfigIdle ==
    /\ cfg_volume = NoVolume
    /\ cfg_xml = NoXml

ResizeIdle ==
    /\ rs_running = FALSE
    /\ rs_kind = "Volume"
    /\ rs_size = 0
    /\ rs_pc = "idle"
    /\ rs_req = NoRequest
    /\ rs_before = 0
    /\ rs_resized = FALSE
    /\ rs_helper = 0
    /\ rs_stderr = NoHelper
    /\ rs_result = NoResult

CollectionIdle ==
    /\ get_volume_kind = "NotImplementedError"
    /\ list_volumes_impl = FALSE
    /\ pool_vids = {}
    /\ last_item = NoItem
    /\ found_vids = {}

AttachIdle ==
    /\ vm_running = FALSE
    /\ descriptors = <<>>
    /\ prev_desc = <<>>
    /\ last = NoCall
    /\ refused = {}
    /\ pending = {}

(***************************************************************************)
(* Volume.locked: `async with self._lock: return await method(...)`        *)
(***************************************************************************)

\* asyncio.Lock.acquire's fast path, as `async with self._lock` takes it: the
\* lock is free and nobody queues for it.
AcquireNowUnchecked(v) == TRUE

AcquireNow(v) == ~lock_locked[v] /\ lock_waiters[v] = <<>>

\* asyncio.Lock.release at the end of `async with`: unlock and wake the first
\* waiter (its future gets a result; it runs at its next turn).
ReleaseFut(v) ==
    IF lock_waiters[v] = <<>> THEN fut
    ELSE [fut EXCEPT ![Head(lock_waiters[v])] = "done"]

\* Call ids are interchangeable, and so are Volume instances: both are handed
\* out in order.
NextCall(c) == cpc[c] = "idle" /\ (IF c = 1 THEN TRUE ELSE cpc[c - 1] # "idle")

NextVolume(v) == IF v = 1 THEN TRUE ELSE \E c \in Calls : cvol[c] = v - 1

LockInit ==
    /\ wrapped \in SUBSET Methods
    /\ cpc = [c \in Calls |-> "idle"]
    /\ cvol = [c \in Calls |-> 0]
    /\ cmeth = [c \in Calls |-> "none"]
    /\ lock_locked = [v \in LockVolumes |-> FALSE]
    /\ lock_waiters = [v \in LockVolumes |-> <<>>]
    /\ fut = [c \in Calls |-> "none"]

\* A method that is not wrapped by Volume.locked is called: Storage.create's
\* vol.create() and Storage.resize's volume.resize(size) take no lock of their
\* own.  The body runs to its first suspension point, or to its end.
CallUnwrapped(c, v, m) ==
    /\ LockFrame
    /\ NextCall(c)
    /\ NextVolume(v)
    /\ m \notin wrapped
    /\ cvol' = [cvol EXCEPT ![c] = v]
    /\ cmeth' = [cmeth EXCEPT ![c] = m]
    /\ \E next \in {"body", "done", "failed"} : cpc' = [cpc EXCEPT ![c] = next]
    /\ UNCHANGED <<wrapped, lock_locked, lock_waiters, fut>>

\* The wrapper of Volume.locked is called and the lock is free: the body is
\* entered under the lock and runs to its first suspension point.
CallWrappedEnter(c, v, m) ==
    /\ LockFrame
    /\ NextCall(c)
    /\ NextVolume(v)
    /\ m \in wrapped
    /\ AcquireNow(v)
    /\ cvol' = [cvol EXCEPT ![c] = v]
    /\ cmeth' = [cmeth EXCEPT ![c] = m]
    /\ cpc' = [cpc EXCEPT ![c] = "body"]
    /\ lock_locked' = [lock_locked EXCEPT ![v] = TRUE]
    /\ UNCHANGED <<wrapped, lock_waiters, fut>>

\* The wrapper is called and the body ends before any suspension point: the
\* lock is taken and released within the step.
CallWrappedThrough(c, v, m) ==
    /\ LockFrame
    /\ NextCall(c)
    /\ NextVolume(v)
    /\ m \in wrapped
    /\ AcquireNow(v)
    /\ cvol' = [cvol EXCEPT ![c] = v]
    /\ cmeth' = [cmeth EXCEPT ![c] = m]
    /\ \E next \in {"done", "failed"} : cpc' = [cpc EXCEPT ![c] = next]
    /\ UNCHANGED <<wrapped, lock_locked, lock_waiters, fut>>

\* The wrapper is called and the lock is taken or queued for: the call waits.
CallWrappedWait(c, v, m) ==
    /\ LockFrame
    /\ NextCall(c)
    /\ NextVolume(v)
    /\ m \in wrapped
    /\ ~AcquireNow(v)
    /\ cvol' = [cvol EXCEPT ![c] = v]
    /\ cmeth' = [cmeth EXCEPT ![c] = m]
    /\ cpc' = [cpc EXCEPT ![c] = "waiting"]
    /\ lock_waiters' = [lock_waiters EXCEPT ![v] = Append(@, c)]
    /\ fut' = [fut EXCEPT ![c] = "pending"]
    /\ UNCHANGED <<wrapped, lock_locked>>

\* A woken waiter resumes in asyncio.Lock.acquire: it leaves the queue, takes
\* the lock and enters the body.
WaiterResume(c) ==
    /\ LockFrame
    /\ cpc[c] = "waiting"
    /\ fut[c] = "done"
    /\ lock_waiters' = [lock_waiters EXCEPT
                          ![cvol[c]] = SelectSeq(@, LAMBDA w : w # c)]
    /\ lock_locked' = [lock_locked EXCEPT ![cvol[c]] = TRUE]
    /\ cpc' = [cpc EXCEPT ![c] = "body"]
    /\ UNCHANGED <<wrapped, cvol, cmeth, fut>>

\* A body's end that releases the lock on a return only, not on a raise
BodyEndHoldsOnRaise(c) ==
    /\ LockFrame
    /\ cpc[c] = "body"
    /\ \E next \in {"done", "failed"} :
        /\ cpc' = [cpc EXCEPT ![c] = next]
        /\ IF cmeth[c] \in wrapped /\ next = "done"
           THEN /\ lock_locked' = [lock_locked EXCEPT ![cvol[c]] = FALSE]
                /\ fut' = ReleaseFut(cvol[c])
           ELSE UNCHANGED <<lock_locked, fut>>
    /\ UNCHANGED <<wrapped, cvol, cmeth, lock_waiters>>

\* A body resumes and ends, returning or raising; `async with` releases the
\* lock either way when the method is wrapped.
BodyEnd(c) ==
    /\ LockFrame
    /\ cpc[c] = "body"
    /\ \E next \in {"done", "failed"} : cpc' = [cpc EXCEPT ![c] = next]
    /\ IF cmeth[c] \in wrapped
       THEN /\ lock_locked' = [lock_locked EXCEPT ![cvol[c]] = FALSE]
            /\ fut' = ReleaseFut(cvol[c])
       ELSE UNCHANGED <<lock_locked, fut>>
    /\ UNCHANGED <<wrapped, cvol, cmeth, lock_waiters>>

LockNext ==
    \/ \E c \in Calls, v \in LockVolumes, m \in Methods : CallUnwrapped(c, v, m)
    \/ \E c \in Calls, v \in LockVolumes, m \in Methods : CallWrappedEnter(c, v, m)
    \/ \E c \in Calls, v \in LockVolumes, m \in Methods : CallWrappedThrough(c, v, m)
    \/ \E c \in Calls, v \in LockVolumes, m \in Methods : CallWrappedWait(c, v, m)
    \/ \E c \in Calls : WaiterResume(c)
    \/ \E c \in Calls : BodyEnd(c)

InitLock ==
    /\ LockInit
    /\ StorageIdle
    /\ CloneIdle
    /\ VolumeIdle
    /\ AttachIdle
    /\ CollectionIdle
    /\ ResizeIdle
    /\ ConfigIdle
    /\ EqIdle
    /\ InitVolumeIdle
    /\ ThinIdle

SpecLock == InitLock /\ [][LockNext]_vars

\* The event loop runs every task that can run: a body in progress comes to
\* its end (every call holding the lock terminates) and a woken waiter gets
\* its turn.
SpecLockFair ==
    /\ InitLock
    /\ [][LockNext]_vars
    /\ \A c \in Calls : WF_vars(BodyEnd(c)) /\ WF_vars(WaiterResume(c))

(***************************************************************************)
(* Claims about the per-volume lock                                        *)
(***************************************************************************)

\* The body of call c is in progress (entered, suspended inside, not ended).
InBody(c) == cpc[c] = "body"

\* C1: two calls wrapped by Volume.locked on the same Volume instance never
\* have their bodies in progress at once, and a body in progress under the
\* wrapper holds the instance's lock.
C1_LockedBodiesExclusive ==
    \A a, b \in Calls :
        (InBody(a) /\ cmeth[a] \in wrapped)
        => /\ lock_locked[cvol[a]]
           /\ (b # a /\ InBody(b) /\ cmeth[b] \in wrapped) => cvol[a] # cvol[b]

\* C1 witness: a wrapped call failed, and a second wrapped call on the same
\* instance, which had to wait for it, is now in its body.
C1_Witness ==
    \E a, b \in Calls :
        /\ a # b /\ cvol[a] = cvol[b]
        /\ cmeth[a] \in wrapped /\ cmeth[b] \in wrapped
        /\ cpc[a] = "failed"
        /\ fut[b] = "done" /\ InBody(b)

\* create() and resize() on one Volume instance are never in progress at once.
NoCreateResizeOverlap ==
    \A a, b \in Calls :
        (InBody(a) /\ InBody(b) /\ cmeth[a] = "create" /\ cmeth[b] = "resize")
        => cvol[a] # cvol[b]

\* C2 as claimed: create() and resize() issued against the same Volume instance
\* through Storage.create and Storage.resize never overlap.
C2_AsClaimed == NoCreateResizeOverlap

\* C2 amended: create() and resize() on the same Volume instance never overlap
\* when the Volume class wraps both with Volume.locked; Storage.create and
\* Storage.resize take no lock themselves.
C2_WrappedCreateResizeExclusive ==
    {"create", "resize"} \subseteq wrapped => NoCreateResizeOverlap

\* C2 witness: both wrapped, a create() in its body, a resize() on the same
\* instance queued behind it.
C2_Witness ==
    /\ {"create", "resize"} \subseteq wrapped
    /\ \E a, b \in Calls :
        /\ cvol[a] = cvol[b]
        /\ cmeth[a] = "create" /\ InBody(a)
        /\ cmeth[b] = "resize" /\ cpc[b] = "waiting"

(***************************************************************************)
(* Storage.create / start / stop / verify / remove                         *)
(*                                                                         *)
(* Each of them calls vol.<op>() for every volume of self.vm.volumes and   *)
(* hands what the calls return to qubes.utils.void_coros_maybe, which      *)
(* keeps the coroutine objects, runs them as concurrent tasks, waits for   *)
(* all of them and re-raises a failure.  create/start/stop/verify make the *)
(* calls from a generator expression the helper iterates; remove makes     *)
(* them in its own loop, under `except (IOError, OSError)`.                *)
(***************************************************************************)

StorageInit ==
    /\ vm_dir_exists \in BOOLEAN
    /\ sop = "none"
    /\ spc = "idle"
    /\ idx = 1
    /\ kind = [v \in StorageVolumes |-> "none"]
    /\ vstate = [v \in StorageVolumes |-> "not_called"]
    /\ vexc = [v \in StorageVolumes |-> "none"]
    /\ hres = "none"
    /\ sresult = "none"
    /\ fired = FALSE
    /\ logged = {}

\* `except (IOError, OSError)` of Storage.remove: the failures it catches.
RemoveCatches(op, e) == op = "remove" /\ e = "OSError"

\* The Storage operation goes on after `await qubes.utils.void_coros_maybe(..)`
\* only once the helper has returned or raised.
NotAwaited == spc \in {"wait", "resume"}

Awaited == spc = "resume"

\* A Storage operation is called.  Storage.verify first requires the VM
\* directory and raises QubesVMError without it.
StorageCall(op) ==
    /\ StorageFrame
    /\ spc = "idle"
    /\ sop' = op
    /\ IF op = "verify" /\ ~vm_dir_exists
       THEN spc' = "raised" /\ sresult' = "QubesVMError"
       ELSE spc' = "collect" /\ sresult' = sresult
    /\ UNCHANGED <<vm_dir_exists, idx, kind, vstate, vexc, hres, fired, logged>>

\* vol.<op>() is a plain method: its body runs inside the call.  When it
\* raises, Storage.remove catches an OSError, logs it and goes on to the next
\* volume; any other raise leaves the loop (in remove) or ends the generator
\* (in the others), and the Storage operation fails with it at once.
CallPlain(v) ==
    /\ StorageFrame
    /\ spc = "collect"
    /\ idx = v
    /\ kind' = [kind EXCEPT ![v] = "plain"]
    /\ \E out \in {"ok"} \cup Failures :
        /\ vstate' = [vstate EXCEPT ![v] = IF out = "ok" THEN "ok" ELSE "failed"]
        /\ vexc' = [vexc EXCEPT ![v] = IF out = "ok" THEN "none" ELSE out]
        /\ IF out = "ok"
           THEN /\ idx' = idx + 1
                /\ UNCHANGED <<spc, sresult, logged>>
           ELSE IF RemoveCatches(sop, out)
           THEN /\ idx' = idx + 1
                /\ logged' = logged \cup {v}
                /\ UNCHANGED <<spc, sresult>>
           ELSE /\ spc' = "raised"
                /\ sresult' = out
                /\ UNCHANGED <<idx, logged>>
    /\ UNCHANGED <<vm_dir_exists, sop, hres, fired>>

\* vol.<op>() is a coroutine function: the call only makes a coroutine object.
CallCoro(v) ==
    /\ StorageFrame
    /\ spc = "collect"
    /\ idx = v
    /\ kind' = [kind EXCEPT ![v] = "coro"]
    /\ vstate' = [vstate EXCEPT ![v] = "created"]
    /\ idx' = idx + 1
    /\ UNCHANGED <<vm_dir_exists, sop, spc, vexc, hres, sresult, fired, logged>>

\* void_coros_maybe has the whole list: with no coroutine object in it the
\* helper returns at once, otherwise asyncio.wait schedules one task each.
HelperLaunch ==
    /\ StorageFrame
    /\ spc = "collect"
    /\ idx = NumVolumes + 1
    /\ IF \E v \in StorageVolumes : vstate[v] = "created"
       THEN /\ vstate' = [v \in StorageVolumes |->
                            IF vstate[v] = "created" THEN "pending" ELSE vstate[v]]
            /\ spc' = "wait"
            /\ hres' = hres
       ELSE /\ spc' = "resume"
            /\ hres' = "ok"
            /\ vstate' = vstate
    /\ UNCHANGED <<vm_dir_exists, sop, idx, kind, vexc, sresult, fired, logged>>

\* A task runs its coroutine to the end; it returns or raises.
TaskFinish(v) ==
    /\ StorageFrame
    /\ spc = "wait"
    /\ vstate[v] = "pending"
    /\ \E out \in {"ok"} \cup Failures :
        /\ vstate' = [vstate EXCEPT ![v] = IF out = "ok" THEN "ok" ELSE "failed"]
        /\ vexc' = [vexc EXCEPT ![v] = IF out = "ok" THEN "none" ELSE out]
    /\ UNCHANGED <<vm_dir_exists, sop, spc, idx, kind, hres, sresult, fired, logged>>

\* asyncio.wait returns when every task is done; `task.result()` over the done
\* set then re-raises the failure of the first failed task it meets.
HelperSettle ==
    /\ StorageFrame
    /\ spc = "wait"
    /\ \A v \in StorageVolumes : vstate[v] # "pending"
    /\ spc' = "resume"
    /\ IF \E v \in StorageVolumes : kind[v] = "coro" /\ vstate[v] = "failed"
       THEN \E v \in StorageVolumes :
               kind[v] = "coro" /\ vstate[v] = "failed" /\ hres' = vexc[v]
       ELSE hres' = "ok"
    /\ UNCHANGED <<vm_dir_exists, sop, idx, kind, vstate, vexc, sresult, fired, logged>>

\* The Storage operation resumes after the await.  A raise of the helper
\* passes to the caller, except that Storage.remove catches and logs an
\* OSError.  Storage.verify then fires 'domain-verify-files'.
StorageResume ==
    /\ StorageFrame
    /\ Awaited
    /\ IF hres \in Failures /\ ~RemoveCatches(sop, hres)
       THEN /\ spc' = "raised"
            /\ sresult' = hres
            /\ UNCHANGED <<fired, logged>>
       ELSE /\ spc' = "returned"
            /\ sresult' = "ok"
            /\ fired' = (sop = "verify")
            /\ logged' = IF hres \in Failures THEN logged \cup {0} ELSE logged
    /\ UNCHANGED <<vm_dir_exists, sop, idx, kind, vstate, vexc, hres>>

StorageNext ==
    \/ \E op \in StorageOps : StorageCall(op)
    \/ \E v \in StorageVolumes : CallPlain(v)
    \/ \E v \in StorageVolumes : CallCoro(v)
    \/ HelperLaunch
    \/ \E v \in StorageVolumes : TaskFinish(v)
    \/ HelperSettle
    \/ StorageResume

InitStorage ==
    /\ StorageInit
    /\ LockIdle
    /\ CloneIdle
    /\ VolumeIdle
    /\ AttachIdle
    /\ CollectionIdle
    /\ ResizeIdle
    /\ ConfigIdle
    /\ EqIdle
    /\ InitVolumeIdle
    /\ ThinIdle

SpecStorage == InitStorage /\ [][StorageNext]_vars

(***************************************************************************)
(* Claims about the fan-out operations                                     *)
(***************************************************************************)

\* The Storage operation has returned to its caller or raised.
StorageEnded == spc \in {"returned", "raised"}

\* vol.<op>() was called and its body ran to its end (returned or raised).
RanToCompletion(v) == vstate[v] \in {"ok", "failed"}

\* C3: when one volume's create() fails in Storage.create(), every other
\* volume's create() has been run too and Storage.create() fails.
C3_SiblingsStillCreated ==
    (sop = "create" /\ StorageEnded /\ \E v \in StorageVolumes : vstate[v] = "failed")
    => /\ \A w \in StorageVolumes : RanToCompletion(w)
       /\ spc = "raised"

\* C4: when Storage.start/stop/create/verify returns or raises, no task it
\* launched is still pending, and a failure that came out of the fan-out is
\* raised only when every coroutine handed to it has completed or failed.
C4_TasksSettledAtReturn ==
    (sop \in {"start", "stop", "create", "verify"} /\ StorageEnded)
    => /\ \A v \in StorageVolumes : vstate[v] # "pending"
       /\ hres # "none"
          => \A v \in StorageVolumes : kind[v] = "coro" => RanToCompletion(v)

\* C4 witness: Storage.start raised the failure of one task after a sibling
\* task had completed.
C4_Witness ==
    /\ sop = "start" /\ spc = "raised"
    /\ \E v, w \in StorageVolumes :
        /\ kind[v] = "coro" /\ vstate[v] = "failed"
        /\ kind[w] = "coro" /\ vstate[w] = "ok"

\* C5: Storage.remove() never fails, whatever a volume's remove() raises and
\* whether it raises in the call or in the awaited coroutine.
C5_RemoveNeverFails == sop = "remove" => spc # "raised"

\* C6: when Storage.remove() ends, every volume's remove() has been called and
\* has run to completion, whichever siblings failed.
C6_RemoveAttemptsAll ==
    (sop = "remove" /\ StorageEnded) => \A v \in StorageVolumes : RanToCompletion(v)

(***************************************************************************)
(* Storage.clone, Storage.clone_volume and VmCreationManager               *)
(*                                                                         *)
(* clone empties self.vm.volumes and, inside `with VmCreationManager`,     *)
(* hands one clone_volume coroutine per configured name to                 *)
(* void_coros_maybe.  clone_volume is a coroutine function, so every name  *)
(* gets a task.  A step of a task below runs one awaited call of           *)
(* clone_volume to its end.                                                *)
(***************************************************************************)

CloneInit ==
    /\ vm_dir \in {"missing", "empty", "nonempty"}
    /\ vm_volumes = [n \in CloneNames |-> [name |-> n, dst |-> FALSE]]
    /\ cl_pc = "idle"
    /\ ctask = [n \in CloneNames |-> "new"]
    /\ cfail = [n \in CloneNames |-> "none"]
    /\ on_disk = [n \in CloneNames |-> FALSE]
    /\ rem = [n \in CloneNames |-> "none"]
    /\ exit_idx = 1
    /\ clone_err = NoError
    /\ surfaced = NoError

\* Storage.clone is called: `self.vm.volumes = {}`, then the tasks are launched.
CloneCall ==
    /\ CloneFrame
    /\ cl_pc = "idle"
    /\ vm_volumes' = <<>>
    /\ cl_pc' = "tasks"
    /\ UNCHANGED <<vm_dir, ctask, cfail, on_disk, rem, exit_idx, clone_err, surfaced>>

\* clone_volume up to dst.create(): the config and pool lookups, init_volume
\* and src_vm.volumes[name]; any of them may raise.
CloneVolumeInit(n) ==
    /\ CloneFrame
    /\ cl_pc = "tasks"
    /\ ctask[n] = "new"
    /\ \/ /\ ctask' = [ctask EXCEPT ![n] = "creating"]
          /\ cfail' = cfail
       \/ /\ ctask' = [ctask EXCEPT ![n] = "failed"]
          /\ cfail' = [cfail EXCEPT ![n] = "init"]
    /\ UNCHANGED <<vm_dir, vm_volumes, cl_pc, on_disk, rem, exit_idx, clone_err, surfaced>>

\* `await coro_maybe(dst.create())` ends: the volume is on disk, or create()
\* raised.
CloneVolumeCreate(n) ==
    /\ CloneFrame
    /\ cl_pc = "tasks"
    /\ ctask[n] = "creating"
    /\ \/ /\ ctask' = [ctask EXCEPT ![n] = "importing"]
          /\ on_disk' = [on_disk EXCEPT ![n] = TRUE]
          /\ cfail' = cfail
       \/ /\ ctask' = [ctask EXCEPT ![n] = "failed"]
          /\ cfail' = [cfail EXCEPT ![n] = "create"]
          /\ on_disk' = on_disk
    /\ UNCHANGED <<vm_dir, vm_volumes, cl_pc, rem, exit_idx, clone_err, surfaced>>

\* An import step that registers the volume whether or not the import
\* succeeded.
CloneVolumeImportEarly(n) ==
    /\ CloneFrame
    /\ cl_pc = "tasks"
    /\ ctask[n] = "importing"
    /\ vm_volumes' = Append(vm_volumes, [name |-> n, dst |-> TRUE])
    /\ \/ /\ ctask' = [ctask EXCEPT ![n] = "done"]
          /\ cfail' = cfail
       \/ /\ ctask' = [ctask EXCEPT ![n] = "failed"]
          /\ cfail' = [cfail EXCEPT ![n] = "import"]
    /\ UNCHANGED <<vm_dir, cl_pc, on_disk, rem, exit_idx, clone_err, surfaced>>

\* `await coro_maybe(dst.import_volume(src_volume))` ends: on success the
\* volume is registered, `self.vm.volumes[name] = dst`; on a raise it is not.
CloneVolumeImport(n) ==
    /\ CloneFrame
    /\ cl_pc = "tasks"
    /\ ctask[n] = "importing"
    /\ \/ /\ ctask' = [ctask EXCEPT ![n] = "done"]
          /\ vm_volumes' = Append(vm_volumes, [name |-> n, dst |-> TRUE])
          /\ cfail' = cfail
       \/ /\ ctask' = [ctask EXCEPT ![n] = "failed"]
          /\ cfail' = [cfail EXCEPT ![n] = "import"]
          /\ vm_volumes' = vm_volumes
    /\ UNCHANGED <<vm_dir, cl_pc, on_disk, rem, exit_idx, clone_err, surfaced>>

\* Every task is done: void_coros_maybe returns, or re-raises the failure of a
\* failed task.  Without a failure __exit__ does nothing and clone returns;
\* with one, __exit__ starts its loop over self.vm.volumes.values().
CloneSettle ==
    /\ CloneFrame
    /\ cl_pc = "tasks"
    /\ \A n \in CloneNames : ctask[n] \in {"done", "failed"}
    /\ IF \E n \in CloneNames : ctask[n] = "failed"
       THEN /\ \E n \in CloneNames :
                 /\ ctask[n] = "failed"
                 /\ clone_err' = [step |-> cfail[n], name |-> n]
            /\ cl_pc' = "exit"
            /\ surfaced' = surfaced
       ELSE /\ cl_pc' = "returned"
            /\ surfaced' = [step |-> "returned", name |-> 0]
            /\ clone_err' = clone_err
    /\ UNCHANGED <<vm_dir, vm_volumes, ctask, cfail, on_disk, rem, exit_idx>>

\* __exit__'s `volume.remove()` under `except Exception: pass`, not awaited:
\* a plain remove() runs and removes the volume or raises (swallowed); a
\* coroutine remove() only makes a coroutine object, which nobody runs.
ExitRemove(i) ==
    /\ CloneFrame
    /\ cl_pc = "exit"
    /\ exit_idx = i
    /\ i <= Len(vm_volumes)
    /\ \E r \in {"ok", "failed", "unawaited"} :
        /\ rem' = [rem EXCEPT ![vm_volumes[i].name] = r]
        /\ on_disk' = [on_disk EXCEPT ![vm_volumes[i].name] =
                                            IF r = "ok" THEN FALSE ELSE @]
    /\ exit_idx' = i + 1
    /\ UNCHANGED <<vm_dir, vm_volumes, cl_pc, ctask, cfail, clone_err, surfaced>>

\* __exit__'s `os.rmdir(self.vm.dir_path)`, outside any try: an empty
\* directory is removed and the original failure goes on to the caller; a
\* missing or non-empty one raises OSError out of __exit__, which then is what
\* the caller gets.
ExitRmdir ==
    /\ CloneFrame
    /\ cl_pc = "exit"
    /\ exit_idx = Len(vm_volumes) + 1
    /\ IF vm_dir = "empty"
       THEN vm_dir' = "missing" /\ surfaced' = clone_err
       ELSE vm_dir' = vm_dir /\ surfaced' = [step |-> "rmdir", name |-> 0]
    /\ cl_pc' = "raised"
    /\ UNCHANGED <<vm_volumes, ctask, cfail, on_disk, rem, exit_idx, clone_err>>

CloneNext ==
    \/ CloneCall
    \/ \E n \in CloneNames : CloneVolumeInit(n)
    \/ \E n \in CloneNames : CloneVolumeCreate(n)
    \/ \E n \in CloneNames : CloneVolumeImport(n)
    \/ CloneSettle
    \/ \E i \in CloneNames : ExitRemove(i)
    \/ ExitRmdir

InitClone ==
    /\ CloneInit
    /\ LockIdle
    /\ StorageIdle
    /\ VolumeIdle
    /\ AttachIdle
    /\ CollectionIdle
    /\ ResizeIdle
    /\ ConfigIdle
    /\ EqIdle
    /\ InitVolumeIdle
    /\ ThinIdle

SpecClone == InitClone /\ [][CloneNext]_vars

(***************************************************************************)
(* Claims about Storage.clone's rollback                                   *)
(***************************************************************************)

\* The names registered in self.vm.volumes.
Registered == {vm_volumes[i].name : i \in DOMAIN vm_volumes}

\* C7: after a clone that failed on an import_volume, the remove() of every
\* registered volume has run to its end and the VM directory is gone.
C7_RollbackRemovesRegistered ==
    (cl_pc = "raised" /\ \E n \in CloneNames : cfail[n] = "import")
    => /\ \A n \in Registered : rem[n] \in {"ok", "failed"}
       /\ vm_dir = "missing"

\* C8: after a failed clone no volume the clone created is left on disk.
C8_NothingLeftOnDisk ==
    cl_pc = "raised" => \A n \in CloneNames : ~on_disk[n]

\* C9: the failure a failed clone gives its caller is the failure of a clone
\* task, never one raised by the rollback.
C9_OriginalErrorSurfaces ==
    cl_pc = "raised" => surfaced = clone_err

(***************************************************************************)
(* Volume.__init__ and the size setter                                     *)
(***************************************************************************)

PoolName(p) == IF p \in {"poolA", "poolA2"} THEN "A" ELSE "B"

\* Pool.__eq__ on two Pool objects: equality of the names.
PoolEq(p, q) == PoolName(p) = PoolName(q)

\* The checks of Volume.__init__ without the test for a source given with
\* snap_on_start unset.
InitResultNoSourceCheck(pool, snap_on_start, source) ==
    IF pool \notin PoolObjs THEN "AssertionError"
    ELSE IF source # 0 /\ ~PoolEq(volumes[source].pool, pool) THEN "AssertionError"
    ELSE IF snap_on_start /\ source = 0 THEN "StoragePoolException"
    ELSE "ok"

\* The checks of Volume.__init__, in order: the two asserts, then the two
\* raises.  source is 0 for None, else the index of a constructed Volume.
InitResult(pool, snap_on_start, source) ==
    IF pool \notin PoolObjs THEN "AssertionError"
    ELSE IF source # 0 /\ ~PoolEq(volumes[source].pool, pool) THEN "AssertionError"
    ELSE IF snap_on_start /\ source = 0 THEN "StoragePoolException"
    ELSE IF ~snap_on_start /\ source # 0 THEN "StoragePoolException"
    ELSE "ok"

\* Volume(name, pool, vid, size=.., snap_on_start=.., source=..) is called:
\* the object exists afterwards only when no check failed.
VolumeInit(pool, vid, size, snap_on_start, source) ==
    /\ VolumeFrame
    /\ InitResult(pool, snap_on_start, source) = "ok" => Len(volumes) < MaxVolumes
    /\ last_init' = [snap_on_start |-> snap_on_start, source |-> source,
                     result |-> InitResult(pool, snap_on_start, source)]
    /\ volumes' = IF InitResult(pool, snap_on_start, source) = "ok"
                  THEN Append(volumes, [pool |-> pool, vid |-> vid, size |-> size,
                                        snap_on_start |-> snap_on_start,
                                        source |-> source])
                  ELSE volumes

\* The size setter: `self._size = int(size)`.
SetSize(i, size) ==
    /\ VolumeFrame
    /\ i \in DOMAIN volumes
    /\ volumes[i].size # size
    /\ volumes' = [volumes EXCEPT ![i].size = size]
    /\ UNCHANGED last_init

VolumeNext ==
    \/ \E pool \in PoolObjs \cup {NotAPool}, vid \in Vids, size \in Sizes,
          snap_on_start \in BOOLEAN, source \in 0..Len(volumes) :
            VolumeInit(pool, vid, size, snap_on_start, source)
    \/ \E i \in 1..MaxVolumes, size \in Sizes : SetSize(i, size)

InitVolume ==
    /\ VolumeIdle
    /\ LockIdle
    /\ StorageIdle
    /\ CloneIdle
    /\ AttachIdle
    /\ CollectionIdle
    /\ ResizeIdle
    /\ ConfigIdle
    /\ EqIdle
    /\ InitVolumeIdle
    /\ ThinIdle

SpecVolume == InitVolume /\ [][VolumeNext]_vars

\* C10: every constructed Volume has snap_on_start set exactly when it has a
\* source, and its source is of an equal pool; a construction with
\* snap_on_start and no source, or with a source and no snap_on_start, failed.
C10_SnapOnStartIffSource ==
    /\ \A i \in DOMAIN volumes :
        /\ volumes[i].snap_on_start <=> volumes[i].source # 0
        /\ volumes[i].source # 0
           => PoolEq(volumes[volumes[i].source].pool, volumes[i].pool)
    /\ (last_init.result # "none"
        /\ (last_init.snap_on_start <=> last_init.source = 0))
       => last_init.result \in {"AssertionError", "StoragePoolException"}

\* C10 witness: a Volume with a source exists, and the last construction, of a
\* Volume with a source of its own pool and snap_on_start unset, was refused.
C10_Witness ==
    /\ \E i \in DOMAIN volumes : volumes[i].source # 0
    /\ last_init.result = "StoragePoolException"
    /\ ~last_init.snap_on_start /\ last_init.source # 0

(***************************************************************************)
(* Storage.attach, Storage.detach, Storage.unused_frontend                 *)
(*                                                                         *)
(* The descriptors are the <disk> elements the hypervisor reports for the  *)
(* VM, in document order; of each the model keeps what the module reads    *)
(* back: the dev of its <source> and the dev of its <target>.  attach and  *)
(* detach are plain functions: each runs from its read of the descriptors  *)
(* to its attachDevice/detachDevice call without a suspension point.       *)
(***************************************************************************)

RECURSIVE sorted(_)
\* sorted(iterable): the elements in ascending order
sorted(S) ==
    IF S = {} THEN <<>>
    ELSE LET m == CHOOSE x \in S : \A y \in S : x <= y
         IN  <<m>> \o sorted(S \ {m})

\* Storage.used_frontends read from descriptors that miss the last change
used_frontends_stale == {prev_desc[i].target : i \in DOMAIN prev_desc}

\* Storage.used_frontends: the target dev of every disk
used_frontends == {descriptors[i].target : i \in DOMAIN descriptors}

\* Storage.unused_frontend with the used slots left in the candidates
unused_frontend_any ==
    LET unused == sorted(AVAILABLE_FRONTENDS)
    IN  IF unused = <<>> THEN IndexError ELSE unused[1]

\* Storage.unused_frontend: sorted(AVAILABLE_FRONTENDS - used_frontends)[0]
unused_frontend ==
    LET unused == sorted(AVAILABLE_FRONTENDS \ used_frontends)
    IN  IF unused = <<>> THEN IndexError ELSE unused[1]

\* Storage._is_already_attached finding no disk of the volume
_is_never_attached(volume) == FALSE

\* Storage._is_already_attached: some disk source is '/dev/' + volume.vid
_is_already_attached(volume) ==
    \E i \in DOMAIN descriptors : descriptors[i].source = volume

\* The sets of at most k slots
RECURSIVE SlotSets(_)
SlotSets(k) ==
    IF k = 0 THEN {{}}
    ELSE LET P == SlotSets(k - 1)
         IN  P \cup {p \cup {f} : p \in P, f \in AVAILABLE_FRONTENDS}

\* A VM's disks before the calls: one disk on another bus, then a disk on
\* each slot of used, of which the first ones are the volumes of attached
InitialDescriptors(used, attached) ==
    LET slots == sorted(used)
        vols == sorted(attached)
    IN  <<[source |-> OtherSource, target |-> OtherTarget]>> \o
        [i \in 1..Len(slots) |->
            [source |-> IF i <= Len(vols) THEN vols[i] ELSE OtherSource,
             target |-> slots[i]]]

\* The VM before the calls: its disks leave at most MaxFree slots free; a VM
\* that is not running, on which every attach fails alike, is taken with
\* every slot used.
AttachInit ==
    /\ \E free \in SlotSets(MaxFree), n \in 0..NumAttachVolumes :
          /\ descriptors =
                 InitialDescriptors(AVAILABLE_FRONTENDS \ free, 1..n)
          /\ vm_running \in IF free = {} THEN BOOLEAN ELSE {TRUE}
    /\ prev_desc = descriptors
    /\ last = NoCall
    /\ refused = {}
    /\ pending = {}

\* Storage.unused_frontend() called on its own
UnusedFrontendCall ==
    /\ last' = [op |-> "unused_frontend", vol |-> 0,
                result |-> IF unused_frontend = IndexError
                           THEN "IndexError" ELSE "ok",
                frontend |-> IF unused_frontend = IndexError
                             THEN 0 ELSE unused_frontend,
                submitted |-> "none"]
    /\ prev_desc' = descriptors
    /\ UNCHANGED <<vm_running, descriptors, refused, pending>>
    /\ AttachFrame

\* Storage.attach(volume)
Attach(volume) ==
    /\ prev_desc' = descriptors
    /\ IF ~vm_running
       THEN /\ last' = [op |-> "attach", vol |-> volume,
                        result |-> "AssertionError", frontend |-> 0,
                        submitted |-> "none"]
            /\ UNCHANGED <<descriptors, refused>>
       ELSE IF _is_already_attached(volume)
       THEN /\ last' = [op |-> "attach", vol |-> volume,
                        result |-> "already attached", frontend |-> 0,
                        submitted |-> "none"]
            /\ UNCHANGED <<descriptors, refused>>
       ELSE IF unused_frontend = IndexError
       THEN /\ last' = [op |-> "attach", vol |-> volume,
                        result |-> "StoragePoolException", frontend |-> 0,
                        submitted |-> "none"]
            /\ refused' = refused \cup {volume}
            /\ UNCHANGED descriptors
       ELSE /\ last' = [op |-> "attach", vol |-> volume, result |-> "ok",
                        frontend |-> unused_frontend,
                        submitted |-> "attachDevice"]
            /\ descriptors' = Append(descriptors,
                   [source |-> volume, target |-> unused_frontend])
            /\ UNCHANGED refused
    /\ pending' = pending \ {volume}
    /\ UNCHANGED vm_running
    /\ AttachFrame

\* The disk Storage.detach stops at, taking the first disk whatever its source
FirstDisk(volume) == IF descriptors = <<>> THEN 0 ELSE 1

\* The disk Storage.detach stops at: the first whose source is the volume's
MatchingDisk(volume) ==
    LET found == {i \in DOMAIN descriptors : descriptors[i].source = volume}
    IN  IF found = {} THEN 0
        ELSE CHOOSE i \in found : \A j \in found : i <= j

\* Storage.detach(volume)
Detach(volume) ==
    /\ prev_desc' = descriptors
    /\ LET i == MatchingDisk(volume)
       IN  IF i = 0
           THEN /\ last' = [op |-> "detach", vol |-> volume,
                            result |-> "StoragePoolException",
                            frontend |-> 0, submitted |-> "none"]
                /\ UNCHANGED descriptors
           ELSE /\ last' = [op |-> "detach", vol |-> volume, result |-> "ok",
                            frontend |-> descriptors[i].target,
                            submitted |-> "detachDevice"]
                /\ descriptors' = SubSeq(descriptors, 1, i - 1) \o
                       SubSeq(descriptors, i + 1, Len(descriptors))
    /\ UNCHANGED <<vm_running, refused, pending>>
    /\ AttachFrame

AttachNext ==
    \/ UnusedFrontendCall
    \/ \E volume \in AttachVolumes : Attach(volume)
    \/ \E volume \in AttachVolumes : Detach(volume)

InitAttach ==
    /\ AttachInit
    /\ LockIdle
    /\ StorageIdle
    /\ CloneIdle
    /\ VolumeIdle
    /\ CollectionIdle
    /\ ResizeIdle
    /\ ConfigIdle
    /\ EqIdle
    /\ InitVolumeIdle
    /\ ThinIdle

SpecAttach == InitAttach /\ [][AttachNext]_vars

\* C11: whenever some slot of xvda..xvdz is unused, unused_frontend() is an
\* unused slot of xvda..xvdz and no unused slot is lower; the slot a call
\* returned is the slot a further call returns while no attach or detach
\* intervenes.
C11_LowestUnusedFrontend ==
    LET free == {f \in AVAILABLE_FRONTENDS :
                    \A i \in DOMAIN descriptors : descriptors[i].target # f}
    IN  free # {} =>
            /\ unused_frontend \in free
            /\ \A f \in free : unused_frontend <= f
            /\ last.op = "unused_frontend" =>
                   last.result = "ok" /\ last.frontend = unused_frontend

\* C11 witness: unused_frontend() returned a slot that has used slots below
\* and above it.
C11_Witness ==
    /\ last.op = "unused_frontend" /\ last.result = "ok"
    /\ \E i, j \in DOMAIN descriptors :
          /\ descriptors[i].target \in AVAILABLE_FRONTENDS
          /\ descriptors[i].target < last.frontend
          /\ descriptors[j].target > last.frontend

\* C12: an attach on a running VM of a volume that is not attached, made
\* when every slot of xvda..xvdz is used, fails with StoragePoolException,
\* submits nothing and leaves the descriptors as they were; made when a slot
\* is free (as after a detach freed one) it succeeds and adds the volume's
\* descriptor on a slot that was free.
C12_ExhaustionRefused ==
    LET used == {prev_desc[i].target : i \in DOMAIN prev_desc}
        was_attached ==
            \E i \in DOMAIN prev_desc : prev_desc[i].source = last.vol
    IN  (last.op = "attach" /\ vm_running /\ ~was_attached) =>
            IF AVAILABLE_FRONTENDS \subseteq used
            THEN /\ last.result = "StoragePoolException"
                 /\ last.submitted = "none"
                 /\ descriptors = prev_desc
            ELSE /\ last.result = "ok"
                 /\ last.submitted = "attachDevice"
                 /\ last.frontend \in AVAILABLE_FRONTENDS \ used
                 /\ descriptors = Append(prev_desc,
                        [source |-> last.vol, target |-> last.frontend])

\* C12 witness: the attach of a volume that was refused for want of a slot has
\* succeeded after a detach.
C12_Witness ==
    /\ last.op = "attach" /\ last.result = "ok"
    /\ last.vol \in refused

\* C13: an attach on a running VM of a volume that has a descriptor is
\* answered without submitting anything and leaves the descriptors as they
\* were; no volume ever has more than one descriptor.
C13_AttachIdempotent ==
    /\ (/\ last.op = "attach" /\ vm_running
        /\ \E i \in DOMAIN prev_desc : prev_desc[i].source = last.vol)
       => /\ last.result = "already attached"
          /\ last.submitted = "none"
          /\ descriptors = prev_desc
    /\ \A volume \in AttachVolumes :
          Cardinality({i \in DOMAIN descriptors :
                          descriptors[i].source = volume}) <= 1

\* C13 witness: the last attach was of a volume an earlier attach had added
\* as the last descriptor, and it changed nothing.
C13_Witness ==
    /\ last.op = "attach" /\ last.result = "already attached"
    /\ descriptors[Len(descriptors)].source = last.vol

\* C14: a detach of a volume that has a descriptor removes that descriptor
\* and leaves every other descriptor in place and in order; a detach of a
\* volume that has none fails with StoragePoolException, submits no removal
\* and leaves the descriptors as they were.
C14_DetachExactlyMatching ==
    LET Other(d) == d.source # last.vol
    IN  last.op = "detach" =>
            IF \E i \in DOMAIN prev_desc : prev_desc[i].source = last.vol
            THEN /\ last.result = "ok"
                 /\ last.submitted = "detachDevice"
                 /\ Len(descriptors) = Len(prev_desc) - 1
                 /\ SelectSeq(descriptors, Other) = SelectSeq(prev_desc, Other)
            ELSE /\ last.result = "StoragePoolException"
                 /\ last.submitted = "none"
                 /\ descriptors = prev_desc

\* C14 witness: a detach removed the descriptor of a volume from between
\* descriptors that stayed.
C14_Witness ==
    /\ last.op = "detach" /\ last.result = "ok"
    /\ \E i \in DOMAIN prev_desc :
          /\ prev_desc[i].source = last.vol
          /\ 1 < i /\ i < Len(prev_desc)
    /\ \A i \in DOMAIN descriptors : descriptors[i].source # last.vol

(***************************************************************************)
(* Concurrent attach calls.  Tasks of the event loop each call             *)
(* Storage.attach for a volume of their own that is not attached, on a     *)
(* running VM.  A task runs only when the loop hands it control, and       *)
(* attach, which awaits nothing, runs from its reads of the descriptors to *)
(* attachDevice before any other task resumes.  The loop runs every task   *)
(* that is ready, hence the weak fairness of each call.                    *)
(***************************************************************************)

RaceInit ==
    /\ vm_running = TRUE
    /\ \E free \in SlotSets(MaxFree + 1), n \in 0..(NumAttachVolumes - 2) :
          /\ descriptors =
                 InitialDescriptors(AVAILABLE_FRONTENDS \ free, 1..n)
          /\ pending = AttachVolumes \ (1..n)
    /\ prev_desc = descriptors
    /\ last = NoCall
    /\ refused = {}

\* The loop runs a task up to its return from Storage.attach(volume)
RunAttach(volume) ==
    /\ volume \in pending
    /\ Attach(volume)

RaceNext == \E volume \in AttachVolumes : RunAttach(volume)

InitRace ==
    /\ RaceInit
    /\ LockIdle
    /\ StorageIdle
    /\ CloneIdle
    /\ VolumeIdle
    /\ CollectionIdle
    /\ ResizeIdle
    /\ ConfigIdle
    /\ EqIdle
    /\ InitVolumeIdle
    /\ ThinIdle

SpecRace ==
    /\ InitRace
    /\ [][RaceNext]_vars
    /\ \A volume \in AttachVolumes : WF_vars(RunAttach(volume))

\* Two different volumes have descriptors on the same slot
SameSlotSubmitted ==
    \E i, j \in DOMAIN descriptors :
        /\ descriptors[i].source \in AttachVolumes
        /\ descriptors[j].source \in AttachVolumes
        /\ descriptors[i].source # descriptors[j].source
        /\ descriptors[i].target = descriptors[j].target

\* C15 as claimed: the concurrent attach calls of two different unattached
\* volumes come to a state where both have submitted descriptors with the
\* same target slot.
C15_SameSlotReached == <>SameSlotSubmitted

\* C15: concurrent attach calls of different unattached volumes never come to
\* a state where two of them have submitted descriptors with the same target
\* slot: each call that submits one takes a slot no descriptor had.
C15_NoSameSlot ==
    /\ ~SameSlotSubmitted
    /\ (last.op = "attach" /\ last.result = "ok")
       => \A i \in DOMAIN prev_desc : prev_desc[i].target # last.frontend

\* C15 witness: two calls, each of a volume of its own, have both submitted a
\* descriptor.
C15_Witness ==
    /\ Len(descriptors) >= 2
    /\ descriptors[Len(descriptors)].source \in AttachVolumes
    /\ descriptors[Len(descriptors) - 1].source \in AttachVolumes
    /\ descriptors[Len(descriptors)].source = last.vol
    /\ last.result = "ok"

(***************************************************************************)
(* VolumesCollection.__getitem__ and __contains__ over a pool whose        *)
(* volumes come and go.  A volume is written as its vid; the outcome of a  *)
(* call is the volume returned, "None", or the exception raised.           *)
(***************************************************************************)

\* The scan of __getitem__ finding no volume in the pool's list
scan_nothing(vid) ==
    IF ~list_volumes_impl THEN "NotImplementedError" ELSE "KeyError"

\* for vol in self: if vol.vid == item: return vol; then raise KeyError(item).
\* __iter__ calls self._pool.list_volumes(), which Pool leaves unimplemented.
scan(vid) ==
    IF ~list_volumes_impl THEN "NotImplementedError"
    ELSE IF \E vol \in pool_vids : vol = vid THEN vid
    ELSE "KeyError"

\* self._pool.get_volume(vid)
get_volume(vid) ==
    IF get_volume_kind = "NotImplementedError" THEN "NotImplementedError"
    ELSE IF vid \in pool_vids THEN vid
    ELSE IF get_volume_kind = "None if absent" THEN "None"
    ELSE "KeyError"

\* VolumesCollection.__getitem__ with a vid
getitem_vid(vid) ==
    IF get_volume(vid) = "NotImplementedError" THEN scan(vid)
    ELSE get_volume(vid)

\* VolumesCollection.__getitem__
getitem(item) ==
    IF item.type = "Volume"
    THEN IF PoolEq(item.pool, ThisPool) THEN getitem_vid(item.vid)
         ELSE "KeyError"
    ELSE getitem_vid(item.vid)

\* VolumesCollection.__contains__: only KeyError is caught
contains(item) ==
    IF getitem(item) = "KeyError" THEN "False"
    ELSE IF getitem(item) = "NotImplementedError" THEN "NotImplementedError"
    ELSE IF getitem(item) = "None" THEN "False"
    ELSE "True"

CollectionInit ==
    /\ get_volume_kind \in GetVolumeKinds
    /\ list_volumes_impl \in BOOLEAN
    /\ pool_vids = {}
    /\ last_item = NoItem
    /\ found_vids = {}

\* collection[item]
GetItem(item) ==
    /\ last_item' = [op |-> "getitem", item |-> item,
                     result |-> getitem(item), lookup |-> getitem(item),
                     listed |-> pool_vids]
    /\ found_vids' = found_vids \cup ({getitem(item)} \cap Vids)
    /\ UNCHANGED <<get_volume_kind, list_volumes_impl, pool_vids>>
    /\ CollectionFrame

\* item in collection
Contains(item) ==
    /\ last_item' = [op |-> "contains", item |-> item,
                     result |-> contains(item), lookup |-> getitem(item),
                     listed |-> pool_vids]
    /\ UNCHANGED <<get_volume_kind, list_volumes_impl, pool_vids, found_vids>>
    /\ CollectionFrame

\* The pool gains a volume
PoolAdd(vid) ==
    /\ vid \notin pool_vids
    /\ pool_vids' = pool_vids \cup {vid}
    /\ UNCHANGED <<get_volume_kind, list_volumes_impl, last_item, found_vids>>
    /\ CollectionFrame

\* The pool loses a volume
PoolRemove(vid) ==
    /\ vid \in pool_vids
    /\ pool_vids' = pool_vids \ {vid}
    /\ UNCHANGED <<get_volume_kind, list_volumes_impl, last_item, found_vids>>
    /\ CollectionFrame

CollectionNext ==
    \/ \E item \in Items : GetItem(item)
    \/ \E item \in Items : Contains(item)
    \/ \E vid \in Vids : PoolAdd(vid)
    \/ \E vid \in Vids : PoolRemove(vid)

InitCollection ==
    /\ CollectionInit
    /\ LockIdle
    /\ StorageIdle
    /\ CloneIdle
    /\ VolumeIdle
    /\ AttachIdle
    /\ ResizeIdle
    /\ ConfigIdle
    /\ EqIdle
    /\ InitVolumeIdle
    /\ ThinIdle

SpecCollection == InitCollection /\ [][CollectionNext]_vars

\* C16: on a pool that implements list_volumes() and not get_volume(), a
\* lookup by vid returns the listed volume with that vid when the pool lists
\* one at the time of the call and fails with KeyError when it does not,
\* whatever earlier lookups returned.
C16_ScanReflectsList ==
    (/\ get_volume_kind = "NotImplementedError" /\ list_volumes_impl
     /\ last_item.op = "getitem" /\ last_item.item.type = "str")
    => IF last_item.item.vid \in last_item.listed
       THEN last_item.result = last_item.item.vid
       ELSE last_item.result = "KeyError"

\* C16 witness: on such a pool a lookup by vid failed with KeyError for a vid
\* an earlier lookup had returned the volume of, while another volume is
\* listed.
C16_Witness ==
    /\ get_volume_kind = "NotImplementedError" /\ list_volumes_impl
    /\ last_item.op = "getitem" /\ last_item.item.type = "str"
    /\ last_item.result = "KeyError"
    /\ last_item.item.vid \in found_vids
    /\ last_item.listed # {}

\* C17: contains(key) is true exactly when lookup(key) returns a volume, and
\* false whenever it does not.
C17_ContainsIffLookupSucceeds ==
    last_item.op = "contains" =>
        IF last_item.lookup \in Vids
        THEN last_item.result = "True"
        ELSE last_item.result = "False"

(***************************************************************************)
(* Storage.resize.  The volume's resize is Volume.resize, which raises     *)
(* NotImplementedError, or a storage driver's: the drivers are outside     *)
(* this module and their resize is taken from its contract (fails with     *)
(* StoragePoolException when the size is less than the current size,       *)
(* otherwise commits the new size, or fails for a reason of its own).      *)
(* The helper is vm.run_service_for_stdio('qubes.ResizeDisk'): it returns, *)
(* or fails with CalledProcessError carrying the bytes of its stderr.      *)
(***************************************************************************)

\* The byte strings of at most k bytes
RECURSIVE BytesUpTo(_)
BytesUpTo(k) ==
    IF k = 0 THEN {<<>>}
    ELSE LET P == BytesUpTo(k - 1)
         IN  P \cup {Append(p, b) : p \in P, b \in StderrBytes}

\* An exception of the awaited volume.resize taken for no exception
NeverPropagates(exc) == FALSE

\* An exception raised by the awaited volume.resize(size) leaves
\* Storage.resize at once
Propagates(exc) == exc # "ok"

\* bytes.decode('ascii', errors='ignore'): the bytes that are not ASCII are
\* dropped, the others are the characters
decode_ascii_ignore(bytes) ==
    LET IsAscii(b) == b < AsciiEnd IN SelectSeq(bytes, IsAscii)

\* str.replace('%', '') replacing nothing
replace_nothing(text) == text

\* str.replace('%', '')
replace_percent(text) ==
    LET NotPercent(c) == c # Percent IN SelectSeq(text, NotPercent)

\* What a driver's resize(size) may do
DriverOutcomes(size) ==
    IF size < rs_size THEN {"StoragePoolException"} ELSE {"ok", "OSError"}

\* What awaiting volume.resize(size) may do
ResizeOutcomes(size) ==
    IF rs_kind = "Volume" THEN {"NotImplementedError"}
    ELSE DriverOutcomes(size)

ResizeInit ==
    /\ rs_running \in BOOLEAN
    /\ rs_kind \in ResizeKinds
    /\ rs_size \in ResizeSizes
    /\ rs_pc = "idle"
    /\ rs_req = NoRequest
    /\ rs_before = rs_size
    /\ rs_resized = FALSE
    /\ rs_helper = 0
    /\ rs_stderr = NoHelper
    /\ rs_result = NoResult

\* volume.resize(size) ends with outcome: Storage.resize goes on or is left
ResizeSettle(size, outcome) ==
    /\ rs_size' = IF outcome = "ok" THEN size ELSE rs_size
    /\ rs_resized' = (outcome = "ok")
    /\ IF Propagates(outcome)
       THEN /\ rs_result' = [exc |-> outcome, text |-> <<>>]
            /\ rs_pc' = "done"
       ELSE /\ rs_result' = NoResult
            /\ rs_pc' = "resized"

\* Storage.resize(volume, size) up to its first suspension
ResizeCall(volume, size) ==
    /\ rs_pc \in {"idle", "done"}
    /\ rs_req' = [volume |-> volume, size |-> size]
    /\ rs_before' = rs_size
    /\ rs_helper' = 0
    /\ rs_stderr' = NoHelper
    /\ IF volume = "unknown name"
       THEN /\ rs_result' = [exc |-> "KeyError", text |-> <<>>]
            /\ rs_pc' = "done"
            /\ rs_resized' = FALSE
            /\ UNCHANGED rs_size
       ELSE IF rs_kind = "plain"
       THEN \E outcome \in ResizeOutcomes(size) :
               ResizeSettle(size, outcome)
       ELSE /\ rs_pc' = "resize"
            /\ rs_resized' = FALSE
            /\ rs_result' = NoResult
            /\ UNCHANGED rs_size
    /\ UNCHANGED <<rs_running, rs_kind>>
    /\ ResizeFrame

\* The awaited coroutine volume.resize(size) ends
ResizeAwaited ==
    /\ rs_pc = "resize"
    /\ \E outcome \in ResizeOutcomes(rs_req.size) :
          ResizeSettle(rs_req.size, outcome)
    /\ UNCHANGED <<rs_running, rs_kind, rs_req, rs_before, rs_helper,
                   rs_stderr>>
    /\ ResizeFrame

\* if self.vm.is_running(): await self.vm.run_service_for_stdio(...)
IsRunningCheck ==
    /\ rs_pc = "resized"
    /\ IF rs_running
       THEN /\ rs_helper' = rs_helper + 1
            /\ rs_pc' = "helper"
       ELSE /\ rs_pc' = "done"
            /\ UNCHANGED rs_helper
    /\ UNCHANGED <<rs_running, rs_kind, rs_size, rs_req, rs_before,
                   rs_resized, rs_stderr, rs_result>>
    /\ ResizeFrame

\* The helper returns
HelperReturn ==
    /\ rs_pc = "helper"
    /\ rs_pc' = "done"
    /\ UNCHANGED <<rs_running, rs_kind, rs_size, rs_req, rs_before,
                   rs_resized, rs_helper, rs_stderr, rs_result>>
    /\ ResizeFrame

\* The helper fails with CalledProcessError(stderr=stderr)
HelperFail(stderr) ==
    /\ rs_pc = "helper"
    /\ rs_stderr' = [failed |-> TRUE, stderr |-> stderr]
    /\ rs_result' =
           [exc |-> "StoragePoolException",
            text |-> replace_percent(decode_ascii_ignore(stderr))]
    /\ rs_pc' = "done"
    /\ UNCHANGED <<rs_running, rs_kind, rs_size, rs_req, rs_before,
                   rs_resized, rs_helper>>
    /\ ResizeFrame

ResizeNext ==
    \/ \E volume \in ResizeVolumes, size \in ResizeSizes :
          ResizeCall(volume, size)
    \/ ResizeAwaited
    \/ IsRunningCheck
    \/ HelperReturn
    \/ \E stderr \in BytesUpTo(MaxStderr) : HelperFail(stderr)

InitResize ==
    /\ ResizeInit
    /\ LockIdle
    /\ StorageIdle
    /\ CloneIdle
    /\ VolumeIdle
    /\ AttachIdle
    /\ CollectionIdle
    /\ ConfigIdle
    /\ EqIdle
    /\ InitVolumeIdle
    /\ ThinIdle

SpecResize == InitResize /\ [][ResizeNext]_vars

KeepBytes(bytes, keep) ==
    LET Kept(b) == b \in keep IN SelectSeq(bytes, Kept)

\* C19 as claimed: the helper is invoked only on a running VM and only after
\* volume.resize(size) has completed without raising, and when it fails the
\* caller receives a StoragePoolException whose message has the helper's
\* error text with every '%' removed.
C19_AsClaimed ==
    /\ rs_helper > 0 => rs_running /\ rs_resized
    /\ rs_stderr.failed =>
          /\ rs_result.exc = "StoragePoolException"
          /\ rs_result.text =
                 KeepBytes(rs_stderr.stderr, StderrBytes \ {Percent})

\* C19: the helper is invoked only on a running VM and only after
\* volume.resize(size) has completed without raising, and when it fails the
\* caller receives a StoragePoolException whose message has the ASCII
\* characters of the helper's error output other than '%', in their order.
C19_HelperWrapped ==
    /\ rs_helper > 0 => rs_running /\ rs_resized
    /\ rs_stderr.failed =>
          /\ rs_result.exc = "StoragePoolException"
          /\ rs_result.text =
                 KeepBytes(rs_stderr.stderr,
                           {b \in StderrBytes : b < AsciiEnd} \ {Percent})

\* C19 witness: the helper, invoked after the volume was resized on a running
\* VM, has failed with a '%' in its error output, and the caller's message is
\* not empty.
C19_Witness ==
    /\ rs_helper > 0 /\ rs_resized /\ rs_stderr.failed
    /\ \E i \in DOMAIN rs_stderr.stderr : rs_stderr.stderr[i] = Percent
    /\ rs_result.text # <<>>

\* C20: Storage.verify() fires 'domain-verify-files' and returns exactly when
\* the VM directory exists and the verify() of every volume has succeeded,
\* and not before all of them have completed; without the VM directory it
\* fails with QubesVMError and no verify() is invoked; when a verify() has
\* failed the event is never fired.
C20_VerifyFiresAfterAll ==
    sop = "verify" =>
        /\ fired <=> spc = "returned"
        /\ fired => /\ vm_dir_exists
                    /\ sresult = "ok"
                    /\ \A v \in StorageVolumes : vstate[v] = "ok"
        /\ (/\ StorageEnded /\ vm_dir_exists
            /\ \A v \in StorageVolumes : vstate[v] = "ok") => fired
        /\ ~vm_dir_exists =>
              /\ spc = "raised" /\ sresult = "QubesVMError"
              /\ \A v \in StorageVolumes : vstate[v] = "not_called"
        /\ (\E v \in StorageVolumes : vstate[v] = "failed") => ~fired

\* C20 witness: verify() has fired the event after the verify() coroutines of
\* the volumes completed.
C20_Witness ==
    /\ sop = "verify" /\ fired /\ spc = "returned"
    /\ \A v \in StorageVolumes : kind[v] = "coro" /\ vstate[v] = "ok"

(***************************************************************************)
(* Volume.config, Volume.__xml__ and _sanitize_config.  A value of the     *)
(* config dictionary is a bool, an int or a str, written here with its     *)
(* type; the attributes of the <volume> element are strings.               *)
(***************************************************************************)

BoolValue(b) == [type |-> "bool", b |-> b, i |-> 0, s |-> ""]
IntValue(i) == [type |-> "int", b |-> FALSE, i |-> i, s |-> ""]
StrValue(s) == [type |-> "str", b |-> FALSE, i |-> 0, s |-> s]

\* str(value) of an int or a str
str(value) == IF value.type = "int" THEN ToString(value.i) ELSE value.s

\* Volume.config: size is left out when 0, source when there is none;
\* str(self.pool) is the pool's name and str(self.source) the source's vid
config(volume) ==
    LET keys == {"name", "pool", "vid", "revisions_to_keep", "rw",
                 "save_on_stop", "snap_on_start"}
                \cup (IF volume.size # 0 THEN {"size"} ELSE {})
                \cup (IF volume.source # "None" THEN {"source"} ELSE {})
    IN  [key \in keys |->
            CASE key = "name" -> StrValue(volume.name)
              [] key = "pool" -> StrValue(PoolName(volume.pool))
              [] key = "vid" -> StrValue(volume.vid)
              [] key = "revisions_to_keep" -> IntValue(volume.revisions_to_keep)
              [] key = "rw" -> BoolValue(volume.rw)
              [] key = "save_on_stop" -> BoolValue(volume.save_on_stop)
              [] key = "snap_on_start" -> BoolValue(volume.snap_on_start)
              [] key = "size" -> IntValue(volume.size)
              [] key = "source" -> StrValue(volume.source)]

\* The test of _sanitize_config taking every false value for a false bool
IsFalsy(value) ==
    \/ value.type = "bool" /\ ~value.b
    \/ value.type = "int" /\ value.i = 0
    \/ value.type = "str" /\ value.s = ""

\* _sanitize_config: isinstance(value, bool) and not value
IsFalseBool(value) == value.type = "bool" /\ ~value.b

\* _sanitize_config
_sanitize_config(cfg) ==
    [key \in {k \in DOMAIN cfg : ~IsFalseBool(cfg[k])} |->
        IF cfg[key].type = "bool" THEN "True" ELSE str(cfg[key])]

\* A Volume constructed with the default size
ConfigInit ==
    /\ cfg_volume \in {v \in CfgVolumes : v.size = 0}
    /\ cfg_xml = NoXml

\* Volume.__xml__: lxml.etree.Element('volume', **_sanitize_config(config))
Xml ==
    /\ ~cfg_xml.done
    /\ cfg_xml' = [done |-> TRUE,
                   config |-> _sanitize_config(config(cfg_volume))]
    /\ UNCHANGED cfg_volume
    /\ ConfigFrame

\* volume.size = size, after which the volume is serialized anew
ConfigSetSize(size) ==
    /\ cfg_xml.done
    /\ cfg_volume' = [cfg_volume EXCEPT !.size = size]
    /\ cfg_xml' = NoXml
    /\ ConfigFrame

ConfigNext ==
    \/ Xml
    \/ \E size \in 0..MaxCfgSize : ConfigSetSize(size)

InitConfig ==
    /\ ConfigInit
    /\ LockIdle
    /\ StorageIdle
    /\ CloneIdle
    /\ VolumeIdle
    /\ AttachIdle
    /\ CollectionIdle
    /\ ResizeIdle
    /\ EqIdle
    /\ InitVolumeIdle
    /\ ThinIdle

SpecConfig == InitConfig /\ [][ConfigNext]_vars

\* C21: the serialized config of a Volume has no key for a boolean attribute
\* that is false, has "True" for one that is true, and has the string form of
\* every other value of the Volume's config dictionary.
C21_FalseOmittedTrueWritten ==
    cfg_xml.done =>
        /\ \A key \in {"rw", "save_on_stop", "snap_on_start"} :
              IF cfg_volume[key]
              THEN key \in DOMAIN cfg_xml.config
                   /\ cfg_xml.config[key] = "True"
              ELSE key \notin DOMAIN cfg_xml.config
        /\ \A key \in DOMAIN config(cfg_volume) :
              config(cfg_volume)[key].type # "bool" =>
                  /\ key \in DOMAIN cfg_xml.config
                  /\ cfg_xml.config[key] = str(config(cfg_volume)[key])
        /\ cfg_xml.config["revisions_to_keep"] =
               ToString(cfg_volume.revisions_to_keep)
        /\ DOMAIN cfg_xml.config \subseteq DOMAIN config(cfg_volume)

\* C21 witness: a Volume with save_on_stop false, snap_on_start true and
\* revisions_to_keep 0 has been serialized.
C21_Witness ==
    /\ cfg_xml.done
    /\ ~cfg_volume.save_on_stop /\ cfg_volume.snap_on_start
    /\ cfg_volume.revisions_to_keep = 0
    /\ "save_on_stop" \notin DOMAIN cfg_xml.config
    /\ cfg_xml.config["snap_on_start"] = "True"

(***************************************************************************)
(* Volume.__eq__ and Volume.__hash__.  The hash of a Volume is the hash of *)
(* the string '%s:%s' % (self.pool, self.vid), written here as that        *)
(* string: Volumes with the same string have the same hash.                *)
(***************************************************************************)

\* Volume.__eq__ comparing the sizes as well
__eq_size__(self, other) ==
    PoolEq(other.pool, self.pool) /\ other.vid = self.vid
    /\ other.size = self.size

\* Volume.__eq__: other.pool == self.pool and other.vid == self.vid
__eq__(self, other) == PoolEq(other.pool, self.pool) /\ other.vid = self.vid

\* Volume.__hash__: hash('%s:%s' % (self.pool, self.vid))
__hash__(self) == PoolName(self.pool) \o ":" \o self.vid

EqInit ==
    /\ eq_self \in EqVolumes
    /\ eq_other \in EqVolumes
    /\ eq_result = NoEq

\* self == other, hash(self), hash(other)
Compare ==
    /\ ~eq_result.done
    /\ eq_result' = [done |-> TRUE, eq |-> __eq__(eq_self, eq_other),
                     hash_self |-> __hash__(eq_self),
                     hash_other |-> __hash__(eq_other)]
    /\ UNCHANGED <<eq_self, eq_other>>
    /\ EqFrame

EqNext == Compare

InitEq ==
    /\ EqInit
    /\ LockIdle
    /\ StorageIdle
    /\ CloneIdle
    /\ VolumeIdle
    /\ AttachIdle
    /\ CollectionIdle
    /\ ResizeIdle
    /\ ConfigIdle
    /\ InitVolumeIdle
    /\ ThinIdle

SpecEq == InitEq /\ [][EqNext]_vars

\* C22: two Volumes compare equal exactly when their pools have the same
\* name and their vids are the same, whatever their other attributes; two
\* Volumes that compare equal have the same hash.
C22_EqualIffPoolAndVid ==
    eq_result.done =>
        /\ eq_result.eq <=>
              /\ PoolName(eq_self.pool) = PoolName(eq_other.pool)
              /\ eq_self.vid = eq_other.vid
        /\ eq_result.eq => eq_result.hash_self = eq_result.hash_other

\* C22 witness: two Volumes of different pool objects with the same name,
\* that differ in name, size, rw and snap_on_start, have compared equal.
C22_Witness ==
    /\ eq_result.done /\ eq_result.eq
    /\ eq_self.pool # eq_other.pool
    /\ eq_self.name # eq_other.name /\ eq_self.size # eq_other.size
    /\ eq_self.rw # eq_other.rw
    /\ eq_self.snap_on_start # eq_other.snap_on_start

(***************************************************************************)
(* Storage.init_volume and Storage._update_volume_config_source.  The VM's *)
(* templates are a finite chain: iv_chain[1] is the same-named volume of   *)
(* the VM's template, iv_chain[2] that of the template's template, and the *)
(* last template has none.  vm.app.get_pool and the pool driver's          *)
(* init_volume are outside this module: get_pool gives the pool it is      *)
(* asked for and init_volume constructs a Volume from the config.          *)
(***************************************************************************)

\* The chains of at most k templates
RECURSIVE Chains(_)
Chains(k) ==
    IF k = 0 THEN {<<>>}
    ELSE LET P == Chains(k - 1)
         IN  P \cup {Append(c, v) : c \in P, v \in ChainVolumes}

\* getattr(x, 'template', None) of the VM (place 0) or of a template
TemplateOf(place) == IF place < Len(iv_chain) THEN place + 1 ELSE 0

\* The loop going up whatever the source volume is
GoesUpAlways(source) == TRUE

\* if source.source is not None: the loop goes up to the template's template
GoesUp(source) == source.has_source

InitVolumeInit ==
    /\ iv_chain \in Chains(MaxChain)
    /\ iv_pc = "idle"
    /\ iv_template = 0
    /\ iv_config = NoConfig
    /\ iv_steps = 0
    /\ iv_volume = NoNewVolume

\* Storage.init_volume(name, volume_config) up to the loop
InitVolumeCall(source_key, pool, size, snap_on_start) ==
    /\ iv_pc = "idle"
    /\ source_key = "vid" => pool # "absent"
    /\ iv_config' = [source_key |-> source_key,
                     source |-> IF source_key = "vid" THEN VidSource
                                ELSE NoSource,
                     pool |-> pool, size |-> size,
                     snap_on_start |-> snap_on_start]
    /\ iv_template' = IF source_key = "None" THEN TemplateOf(0) ELSE 0
    /\ iv_pc' = IF source_key = "None" THEN "walk" ELSE "resolved"
    /\ UNCHANGED <<iv_chain, iv_steps, iv_volume>>
    /\ InitVolumeFrame

\* One iteration of `while template:`
WalkStep ==
    /\ iv_pc = "walk"
    /\ iv_template # 0
    /\ LET source == iv_chain[iv_template]
       IN  /\ iv_config' = [iv_config EXCEPT !.source = iv_template,
                                             !.pool = source.pool,
                                             !.size = source.size]
           /\ IF GoesUp(source)
              THEN /\ iv_template' = TemplateOf(iv_template)
                   /\ UNCHANGED iv_pc
              ELSE /\ iv_pc' = "resolved"
                   /\ UNCHANGED iv_template
    /\ iv_steps' = iv_steps + 1
    /\ UNCHANGED <<iv_chain, iv_volume>>
    /\ InitVolumeFrame

\* `while template:` finds no template
WalkEnd ==
    /\ iv_pc = "walk"
    /\ iv_template = 0
    /\ iv_pc' = "resolved"
    /\ UNCHANGED <<iv_chain, iv_template, iv_config, iv_steps, iv_volume>>
    /\ InitVolumeFrame

\* The pool is the default one when the config names none; the driver's
\* init_volume constructs the Volume, whose constructor wants snap_on_start
\* exactly with a source
PoolInitVolume ==
    /\ iv_pc = "resolved"
    /\ iv_pc' = "done"
    /\ LET pool == IF iv_config.pool = "absent" THEN "poolA"
                   ELSE iv_config.pool
       IN  iv_volume' =
               IF iv_config.snap_on_start <=> iv_config.source # NoSource
               THEN [result |-> "ok", pool |-> pool, size |-> iv_config.size,
                     source |-> iv_config.source]
               ELSE [result |-> "StoragePoolException", pool |-> "none",
                     size |-> 0, source |-> NoSource]
    /\ UNCHANGED <<iv_chain, iv_template, iv_config, iv_steps>>
    /\ InitVolumeFrame

InitVolumeNext ==
    \/ \E source_key \in SourceKeys, pool \in ChainPools \cup {"absent"},
          size \in Sizes, snap_on_start \in BOOLEAN :
            InitVolumeCall(source_key, pool, size, snap_on_start)
    \/ WalkStep
    \/ WalkEnd
    \/ PoolInitVolume

InitChain ==
    /\ InitVolumeInit
    /\ LockIdle
    /\ StorageIdle
    /\ CloneIdle
    /\ VolumeIdle
    /\ AttachIdle
    /\ CollectionIdle
    /\ ResizeIdle
    /\ ConfigIdle
    /\ EqIdle
    /\ ThinIdle

SpecInitVolume == InitChain /\ [][InitVolumeNext]_vars

\* The nearest template whose volume has no source of its own, or the last
\* template when every template's volume has one
Nearest(chain) ==
    LET own == {k \in 1..Len(chain) : ~chain[k].has_source}
    IN  IF own = {} THEN Len(chain)
        ELSE CHOOSE k \in own : \A j \in own : k <= j

\* C23: with source None in the config and a finite template chain, the
\* walk takes at most one step per template, the resolved source is the
\* same-named volume of the nearest template whose volume has no source (of
\* the last template when all have one), and the config's and the new
\* volume's pool and size are that volume's.
C23_SourceFromNearestTemplate ==
    (iv_config.source_key = "None" /\ Len(iv_chain) >= 1) =>
        /\ iv_steps <= Len(iv_chain)
        /\ iv_pc \in {"resolved", "done"} =>
            /\ iv_config.source = Nearest(iv_chain)
            /\ iv_config.pool = iv_chain[Nearest(iv_chain)].pool
            /\ iv_config.size = iv_chain[Nearest(iv_chain)].size
        /\ (iv_pc = "done" /\ iv_volume.result = "ok") =>
            /\ iv_volume.source = Nearest(iv_chain)
            /\ iv_volume.pool = iv_chain[Nearest(iv_chain)].pool
            /\ iv_volume.size = iv_chain[Nearest(iv_chain)].size

\* A volume made from the nearer of two templates, whose volume differs from
\* the farther one's
C23_Witness ==
    /\ iv_pc = "done"
    /\ iv_volume.result = "ok"
    /\ iv_config.source_key = "None"
    /\ Len(iv_chain) = 2
    /\ ~iv_chain[1].has_source
    /\ iv_chain[1].pool # iv_chain[2].pool
    /\ iv_volume.source = 1

\* C24: in Storage.clone a volume's import_volume begins only after its
\* create() completed, a name is in self.vm.volumes only after its import
\* succeeded, and after a successful clone self.vm.volumes holds exactly the
\* names of volume_config, each with the clone's new volume and none with a
\* volume held before the clone.
C24_CreateImportRegister ==
    /\ cl_pc = "tasks" =>
        \A n \in CloneNames :
            /\ (ctask[n] \in {"importing", "done"} \/ cfail[n] = "import")
                   => on_disk[n]
            /\ n \in Registered <=> ctask[n] = "done"
    /\ cl_pc = "returned" =>
        /\ Registered = CloneNames
        /\ Len(vm_volumes) = Cardinality(CloneNames)
        /\ \A i \in DOMAIN vm_volumes : vm_volumes[i].dst

\* A clone that returned, every volume created, imported and registered
C24_Witness ==
    /\ cl_pc = "returned"
    /\ \A n \in CloneNames : ctask[n] = "done" /\ on_disk[n]
    /\ Registered = CloneNames
    /\ \A i \in DOMAIN vm_volumes : vm_volumes[i].dst

\* C25: on a running VM whose disks start with pairwise distinct targets,
\* after any sequence of attach and detach calls made one after the other no
\* two disks share a target, and every slot an attach gives out is one of
\* xvda..xvdz.
C25_TargetsStayDistinct ==
    vm_running =>
        /\ Cardinality(used_frontends) = Len(descriptors)
        /\ (last.op = "attach" /\ last.result = "ok") =>
               last.frontend \in AVAILABLE_FRONTENDS

\* An attach that took the last free slot, below a slot already in use
C25_Witness ==
    /\ vm_running
    /\ last.op = "attach" /\ last.result = "ok"
    /\ descriptors[Len(descriptors)].target = last.frontend
    /\ AVAILABLE_FRONTENDS \subseteq used_frontends
    /\ \E i \in DOMAIN descriptors :
        descriptors[i].target > last.frontend /\ i < Len(descriptors)

\* C26: the lock of a Volume is held only while a wrapped call on it is in
\* its body, so a call that ended, by a return or by a raise, has released
\* it; and when every body comes to an end, every call waiting for the lock
\* of its Volume eventually enters its body.
C26_LockReleasedWaitersBegin ==
    /\ [](\A v \in LockVolumes :
            lock_locked[v] =>
                \E c \in Calls :
                    InBody(c) /\ cvol[c] = v /\ cmeth[c] \in wrapped)
    /\ \A c \in Calls : (cpc[c] = "waiting") ~> InBody(c)

\* Two calls queued behind a wrapped call that raised: the first has come
\* and gone, the second is in its body
C26_Witness ==
    \E a, b, c \in Calls :
        /\ cvol[a] = cvol[b] /\ cvol[b] = cvol[c]
        /\ {cmeth[a], cmeth[b], cmeth[c]} \subseteq wrapped
        /\ cpc[a] = "failed"
        /\ fut[b] = "done" /\ cpc[b] \in {"done", "failed"}
        /\ fut[c] = "done" /\ InBody(c)

(***************************************************************************)
(* DirectoryThinPool: thin_pool(dir_path) calls _init(dir_path), which     *)
(* asks the device mapper about a path not yet in _thin_pool and stores    *)
(* what it finds, None, None when anything fails or the device is no thin  *)
(* volume.  What the device mapper says may differ from call to call.      *)
(***************************************************************************)

\* A membership test that never finds the path
NeverStored(dir_path) == FALSE

\* dir_path in cls._thin_pool
Stored(dir_path) == dir_path \in DOMAIN _thin_pool

\* cls._thin_pool after _init(dir_path), the device mapper saying found
_init(dir_path, found) ==
    IF Stored(dir_path) THEN _thin_pool
    ELSE [p \in DOMAIN _thin_pool \cup {dir_path} |->
             IF p = dir_path THEN found ELSE _thin_pool[p]]

\* The device mapper lookups after _init(dir_path)
LookupsAfter(dir_path) ==
    IF Stored(dir_path) THEN tp_lookups
    ELSE [tp_lookups EXCEPT ![dir_path] = @ + 1]

ThinInit ==
    /\ _thin_pool = <<>>
    /\ tp_lookups = [p \in Paths |-> 0]
    /\ tp_last = NoThinCall
    /\ sr_pools = <<>>
    /\ sr_link = FALSE
    /\ sr_last = NoSearch

\* DirectoryThinPool.thin_pool(dir_path)
ThinPoolCall(dir_path, found) ==
    /\ Cardinality(DOMAIN _thin_pool \cup {dir_path}) <= MaxPaths
    /\ ~Stored(dir_path) => tp_lookups[dir_path] < MaxLookups
    /\ _thin_pool' = _init(dir_path, found)
    /\ tp_lookups' = LookupsAfter(dir_path)
    /\ tp_last' = [path |-> dir_path, result |-> _thin_pool'[dir_path]]
    /\ UNCHANGED <<sr_pools, sr_link, sr_last>>
    /\ ThinFrame

ThinNext ==
    \E dir_path \in Paths, found \in ThinPairs \cup {NonePair} :
        ThinPoolCall(dir_path, found)

InitThin ==
    /\ ThinInit
    /\ LockIdle
    /\ StorageIdle
    /\ CloneIdle
    /\ VolumeIdle
    /\ AttachIdle
    /\ CollectionIdle
    /\ ResizeIdle
    /\ ConfigIdle
    /\ EqIdle
    /\ InitVolumeIdle

SpecThin == InitThin /\ [][ThinNext]_vars

\* C27: over any sequence of thin_pool calls the device mapper is asked at
\* most once about a path, a call returns what is stored for its path, None,
\* None included, and what is stored for a path is never changed or removed.
C27_LookupOncePerPath ==
    /\ [](\A p \in Paths : tp_lookups[p] <= 1)
    /\ [](tp_last # NoThinCall => tp_last.result = _thin_pool[tp_last.path])
    /\ [][\A p \in DOMAIN _thin_pool :
            p \in DOMAIN _thin_pool' /\ _thin_pool'[p] = _thin_pool[p]]_vars

\* A call returned the None, None stored for its path while another path
\* has a thin pool stored
C27_Witness ==
    /\ tp_last # NoThinCall
    /\ tp_last.result = NonePair
    /\ tp_lookups[tp_last.path] = 1
    /\ \E p \in DOMAIN _thin_pool : _thin_pool[p] \in ThinPairs

(***************************************************************************)
(* search_pool_containing_dir(pools, dir_path)                             *)
(***************************************************************************)

\* The lists of at most k pools
RECURSIVE PoolLists(_)
PoolLists(k) ==
    IF k = 0 THEN {<<>>}
    ELSE LET P == PoolLists(k - 1)
         IN  P \cup {Append(l, pool) : l \in P, pool \in PoolRecords}

\* os.path.realpath: with the link in place, b at the root stands for a
realpath(path) ==
    IF sr_link /\ path # <<>> /\ Head(path) = "b"
    THEN <<"a">> \o Tail(path)
    ELSE path

\* os.path.commonpath([p, q]): the longest run of leading directories that
\* p and q share
commonpath(p, q) ==
    LET shared == {k \in 0..Len(p) :
                      k <= Len(q) /\ \A i \in 1..k : p[i] = q[i]}
        n == CHOOSE k \in shared : \A j \in shared : j <= k
    IN  SubSeq(p, 1, n)

\* A first loop that recognises no pool
NeverIncludes(pool, real_dir_path) == FALSE

\* The first loop's test: the pool has a dir_path and the common path of its
\* real path and real_dir_path is its real path
Includes(pool, real_dir_path) ==
    /\ pool.kind = "file"
    /\ commonpath(realpath(pool.dir_path), real_dir_path)
           = realpath(pool.dir_path)

\* The first of the places in the list that a loop stops at, 0 when it stops
\* at none
FirstPool(passing) ==
    IF passing = {} THEN 0
    ELSE CHOOSE i \in passing : \A j \in passing : i <= j

SearchInit ==
    /\ sr_pools \in PoolLists(MaxPools)
    /\ sr_link \in BOOLEAN
    /\ \/ /\ _thin_pool = <<>>
          /\ tp_lookups = [p \in Paths |-> 0]
       \/ /\ \E found \in ThinPairs \cup {NonePair} :
                _thin_pool = [p \in Paths |-> found]
          /\ tp_lookups = [p \in Paths |-> 1]
    /\ tp_last = NoThinCall
    /\ sr_last = NoSearch

\* search_pool_containing_dir(sr_pools, dir_path): the pools with a dir_path
\* first; failing them thin_pool(real_dir_path) is compared with each pool
\* that has volume_group and thin_pool (and is called only from there)
SearchCall(dir_path, found) ==
    /\ sr_last = NoSearch
    /\ LET real_dir_path == realpath(dir_path)
           file == FirstPool({i \in DOMAIN sr_pools :
                                 Includes(sr_pools[i], real_dir_path)})
           lvm == {i \in DOMAIN sr_pools : sr_pools[i].kind = "lvm"}
           asked == file = 0 /\ lvm # {}
           stored == IF asked THEN _init(real_dir_path, found)
                     ELSE _thin_pool
           on_thin_pool ==
               {i \in lvm : sr_pools[i].pair = stored[real_dir_path]}
       IN  /\ _thin_pool' = stored
           /\ tp_lookups' = IF asked THEN LookupsAfter(real_dir_path)
                            ELSE tp_lookups
           /\ tp_last' = IF asked
                         THEN [path |-> real_dir_path,
                               result |-> stored[real_dir_path]]
                         ELSE tp_last
           /\ sr_last' = [dir_path |-> dir_path,
                          result |-> IF file # 0 THEN file
                                     ELSE IF asked
                                     THEN FirstPool(on_thin_pool)
                                     ELSE 0]
    /\ UNCHANGED <<sr_pools, sr_link>>
    /\ ThinFrame

SearchNext ==
    \E dir_path \in Paths, found \in ThinPairs \cup {NonePair} :
        SearchCall(dir_path, found)

InitSearch ==
    /\ SearchInit
    /\ LockIdle
    /\ StorageIdle
    /\ CloneIdle
    /\ VolumeIdle
    /\ AttachIdle
    /\ CollectionIdle
    /\ ResizeIdle
    /\ ConfigIdle
    /\ EqIdle
    /\ InitVolumeIdle

SpecSearch == InitSearch /\ [][SearchNext]_vars

\* p is q or a directory above q
IsAncestor(p, q) == Len(p) <= Len(q) /\ SubSeq(q, 1, Len(p)) = p

\* The pools of sr_pools that are directories holding the searched one
FilePools ==
    {i \in DOMAIN sr_pools :
        /\ sr_pools[i].kind = "file"
        /\ IsAncestor(realpath(sr_pools[i].dir_path),
                      realpath(sr_last.dir_path))}

\* The pools of sr_pools on the thin pool detected for the searched directory
LvmPools ==
    {i \in DOMAIN sr_pools :
        /\ sr_pools[i].kind = "lvm"
        /\ realpath(sr_last.dir_path) \in DOMAIN _thin_pool
        /\ sr_pools[i].pair = _thin_pool[realpath(sr_last.dir_path)]}

\* C28: search_pool_containing_dir returns a pool whose real directory is the
\* searched real path or above it whenever pools has one, wherever the thin
\* pools stand in the list; failing that a pool whose volume group and thin
\* pool are the ones detected for the path; failing that None.
C28_FilePoolThenThinPool ==
    sr_last # NoSearch =>
        IF FilePools # {} THEN sr_last.result \in FilePools
        ELSE IF LvmPools # {} THEN sr_last.result \in LvmPools
        ELSE sr_last.result = 0

\* The second of two pools returned, a directory above the searched one's
\* real path, the first being the thin pool the path is on
C28_Witness ==
    /\ sr_last # NoSearch
    /\ Len(sr_pools) = 2
    /\ sr_last.result = 2
    /\ 2 \in FilePools
    /\ sr_pools[1].kind = "lvm"
    /\ realpath(sr_last.dir_path) \in DOMAIN _thin_pool
    /\ sr_pools[1].pair = _thin_pool[realpath(sr_last.dir_path)]
    /\ realpath(sr_last.dir_path) # sr_last.dir_path

====
